---- MODULE Spec2Model ----
(***************************************************************************)
(* Conversation memory subsystem of picoclaw: the session store            *)
(* (pkg/session, SessionManager), its forwarding of appended messages to   *)
(* the semantic message store (pkg/storage, MessageStore), and the         *)
(* crash-safe snapshot of one session to a file (SessionManager.Save).     *)
(*                                                                         *)
(* Callers are goroutines.  A goroutine runs one operation at a time; an   *)
(* operation is cut into steps at the points where the code acquires a     *)
(* lock, performs a remote call or performs a file system call, because    *)
(* these are the points where other goroutines (or a crash) can be         *)
(* observed in between.  What runs under an exclusive lock is one step.    *)
(***************************************************************************)
EXTENDS Integers, Sequences, FiniteSets, TLC

(***************************************************************************)
(* Bounds of the model.                                                    *)
(***************************************************************************)
\* Total number of operations invoked by all goroutines together.
MaxCalls == 3

\* Number of operations the one goroutine of SeqSpec invokes.
MaxSeqCalls == 4

\* Total number of operations invoked under SaveSpec.
MaxSaveCalls == 4

\* The goroutines that call into the stores.
Threads == {"g1", "g2"}

(***************************************************************************)
(* Session keys are strings; a string is a sequence of characters so that  *)
(* sanitizeFilename and the file name checks of Save work on characters.   *)
(***************************************************************************)
Heartbeat == <<"h", "e", "a", "r", "t", "b", "e", "a", "t">>
KeyA == <<"a", ":", "1">>
KeyB == <<"b">>
Keys == {Heartbeat, KeyA, KeyB}

(***************************************************************************)
(* providers.Message: Role, Content, ToolCalls (here: whether the list of  *)
(* tool calls is non-empty).  The field id is not in the code: it is the   *)
(* identity of one appended message (the clock value of its append, 0 for  *)
(* a message not appended yet), so that properties can tell two equal      *)
(* messages apart.                                                         *)
(***************************************************************************)
Msg(role, content, toolCalls) ==
    [Role |-> role, Content |-> content, ToolCalls |-> toolCalls, id |-> 0]

UserMsg == Msg("user", "q", FALSE)
EmptyUserMsg == Msg("user", "", FALSE)
ToolCallMsg == Msg("assistant", "calc", TRUE)
ToolResultMsg == Msg("tool", "4", FALSE)
AssistantMsg == Msg("assistant", "answer", FALSE)
SystemMsg == Msg("system", "sys", FALSE)
Msgs == {UserMsg, EmptyUserMsg, ToolCallMsg, ToolResultMsg, AssistantMsg, SystemMsg}

VARIABLES
    sessions,      \* SessionManager.sessions: key -> Session, for the keys that have one
    mu,            \* SessionManager.mu: [w: the goroutine holding it exclusively or "", r: the readers]
    messageStore,  \* the MessageStore: "nil" (SessionManager.messageStore is nil), or by its field enabled "enabled" or "disabled"
    storeMu,       \* MessageStore.mu, as mu
    pointCounter,  \* MessageStore.pointCounter
    points,        \* the points upserted into the collection, in upsert order
    clock,         \* time.Now(): advanced by every mutation of a session
    pc,            \* per goroutine: where it is in its operation
    op,            \* per goroutine: the operation it runs (or has just returned from) and its arguments
    idx,           \* per goroutine: AddFullMessage's local variable index
    point,         \* per goroutine: StoreMessage's local variable point
    ret,           \* per goroutine: what the last operation returned
    trace,         \* per goroutine, not in the code: what its current operation did so far
    calls,         \* number of operations invoked so far
    storage,       \* SessionManager.storage: the directory of the snapshots, "" for none
    files,         \* the directory: file name -> file, for the names that exist
    tmp,           \* per goroutine: the temporary file of its Save, once created
    snapshot,      \* per goroutine: Save's local variable snapshot
    crashed,       \* the process has crashed
    held,          \* per goroutine: the message slice its caller holds (an argument or a result)
    results,       \* per goroutine: SearchSimilarMessages' local variable results
    batch,         \* per goroutine: StoreMessages' local variable points
    storageCfg,    \* the StorageConfig the constructor was given: Qdrant.Enabled and Embedding.APIKey
    collection,    \* the collection in the vector database: "absent" or "exists"
    previous,      \* not in the code: the process run before this one: the IDs of the points it wrote through AddFullMessage, its last pointCounter, and the time it ended
    parked,        \* not in the code: the fields of the agent instance whose goroutine is not the one that steps, for a process with two instances
    provider       \* the embeddings endpoint: "conforming" (a 200 response holds one vector per input, in the order of the inputs) or "arbitrary"

fsVars == <<storage, files, tmp, snapshot, crashed>>

localVars == <<held, results, batch>>

envVars == <<storageCfg, collection, provider, previous, parked>>

vars == <<sessions, mu, messageStore, envVars, storeMu, pointCounter, points, clock,
          pc, op, idx, point, ret, trace, calls, localVars, fsVars>>

NoOp == [name |-> "none"]
NoPoint == [ID |-> 0]
NoRet == [kind |-> "none"]
Free == [w |-> "", r |-> {}]
NoSnapshot == [Key |-> <<>>]
\* A file holds a prefix of its bytes json: content is "empty", "partial" or
\* "full"; synced says that this content is on stable storage; data (not in
\* the code) is the snapshot the bytes were made from.  NoFile: no such file.
NoFile == [content |-> "none"]
\* trace: aidx is the index the message got when it was appended, mid the
\* appended message's id, net the number of remote requests issued,
\* forwarded whether StoreMessage was called.
NoTrace == [aidx |-> -1, mid |-> 0, net |-> 0, forwarded |-> FALSE]
\* A message slice in the hands of a caller: its elements, and the key of the
\* session whose Messages share its backing array (NoKey: none does).
NoKey == <<"n", "o", "n", "e">>
NoSlice == [elems |-> <<>>, shares |-> NoKey]

(***************************************************************************)
(* sync.RWMutex                                                            *)
(***************************************************************************)
CanLock(m) == m.w = "" /\ m.r = {}
CanRLock(m) == m.w = ""
Locked(m, t) == [m EXCEPT !.w = t]
Unlocked(m) == [m EXCEPT !.w = ""]
RLocked(m, t) == [m EXCEPT !.r = @ \cup {t}]
RUnlocked(m, t) == [m EXCEPT !.r = @ \ {t}]

(***************************************************************************)
(* Sessions                                                                *)
(***************************************************************************)
NewSession(key, created, updated) ==
    [Key |-> key, Messages |-> <<>>, Summary |-> "", Created |-> created, Updated |-> updated]

\* sm.sessions[key] = session
Put(key, session) ==
    [k \in DOMAIN sessions \cup {key} |-> IF k = key THEN session ELSE sessions[k]]

\* The last n elements of s.
LastN(s, n) == SubSeq(s, Len(s) - n + 1, Len(s))

(***************************************************************************)
(* AddFullMessage's decision to hand the appended message to the message   *)
(* store.                                                                  *)
(***************************************************************************)
StoreEnabled == messageStore = "enabled"

\* StorageConfig
StorageConfig(enabled, apiKey) ==
    [Qdrant |-> [Enabled |-> enabled], Embedding |-> [APIKey |-> apiKey]]

\* MistralEmbeddingClient.apiKey, as NewMessageStore took it from the
\* configuration.
apiKey == storageCfg.Embedding.APIKey

\* The number of requests GenerateEmbedding and GenerateEmbeddingsBatch send:
\* none without a credential, they return an error at once.
EmbeddingRequests == IF apiKey = "" THEN 0 ELSE 1

\* The configuration and the collection behind a message store that was
\* constructed before the goroutines start: the store is enabled when
\* Qdrant.Enabled was set and the collection was found or created; a
\* credential for the embeddings is configured.
\* No process ran before this one.
NoRun == [ids |-> <<>>, counter |-> 0, until |-> 0]

\* The process has one agent instance.
NoInstance == [agent |-> "none"]

\* The first run of a process with one agent instance.
OneInstance ==
    /\ previous = NoRun
    /\ parked = NoInstance

Configured ==
    /\ storageCfg = StorageConfig(StoreEnabled, "key")
    /\ collection = IF StoreEnabled \/ points # <<>> THEN "exists" ELSE "absent"
    /\ provider = "conforming"
    /\ OneInstance

\* ShouldForward without the heartbeat check.
ShouldForwardHeartbeat(sessionKey, msg) ==
    /\ StoreEnabled
    /\ ~(msg.Role = "tool" \/ msg.Role = "system")
    /\ msg.Content # ""

ShouldForward(sessionKey, msg) ==
    /\ StoreEnabled
    /\ sessionKey # Heartbeat
    /\ ~(msg.Role = "tool" \/ msg.Role = "system")
    /\ msg.Content # ""

\* The fields of a SessionManager and of a MessageStore as they are made
\* (all but the sessions and what is outside the process: the directory and
\* the collection), and goroutines that have called nothing yet.
Fresh ==
    /\ mu = Free
    /\ storeMu = Free
    /\ pointCounter = 0
    /\ clock = 0
    /\ op = [t \in Threads |-> NoOp]
    /\ idx = [t \in Threads |-> 0]
    /\ point = [t \in Threads |-> NoPoint]
    /\ ret = [t \in Threads |-> NoRet]
    /\ trace = [t \in Threads |-> NoTrace]
    /\ calls = 0
    /\ tmp = [t \in Threads |-> NoFile]
    /\ snapshot = [t \in Threads |-> NoSnapshot]
    /\ crashed = FALSE
    /\ held = [t \in Threads |-> NoSlice]
    /\ results = [t \in Threads |-> <<>>]
    /\ batch = [t \in Threads |-> <<>>]

\* NewSessionManagerWithConfig over an empty directory (or none): no
\* sessions; the message store is there or not, by the configuration.
Start ==
    /\ Fresh
    /\ sessions = << >>
    /\ pc = [t \in Threads |-> "idle"]
    /\ files = << >>
    /\ points = <<>>

Init ==
    /\ Start
    /\ messageStore \in {"nil", "enabled"}
    /\ storage = ""
    /\ Configured

(***************************************************************************)
(* A goroutine calls an operation.  Inputs of the operations: under Spec   *)
(* two goroutines interleave and the messages are those AddFullMessage     *)
(* treats differently by key and role; under SeqSpec one goroutine calls   *)
(* one operation after the other with every kind of message.               *)
(***************************************************************************)
SummaryTexts == {"s1"}
KeepLasts == {0, 1}
Histories == {<<SystemMsg>>}

Mutators(keys) ==
    [name : {"SetSummary"}, key : keys, summary : SummaryTexts]
    \cup [name : {"TruncateHistory"}, key : keys, keepLast : KeepLasts]
    \cup [name : {"SetHistory"}, key : keys, history : Histories]
    \cup [name : {"GetOrCreate"}, key : keys]

Inputs ==
    [name : {"AddFullMessage"}, key : {KeyA}, msg : {UserMsg, ToolResultMsg}]
    \cup [name : {"AddFullMessage"}, key : {KeyB}, msg : {UserMsg}]
    \cup [name : {"GetHistory", "GetSummary"}, key : {KeyA}]
    \cup Mutators({KeyA})

SeqInputs ==
    [name : {"AddFullMessage"}, key : {KeyA}, msg : Msgs]
    \cup [name : {"AddFullMessage"}, key : {Heartbeat}, msg : {UserMsg}]
    \cup [name : {"GetHistory", "GetSummary"}, key : {KeyA}]
    \cup Mutators({KeyA})

Readers == {"GetHistory", "GetSummary"}

Invoke(t, o) ==
    /\ pc[t] = "idle"
    /\ op' = [op EXCEPT ![t] = o]
    /\ pc' = [pc EXCEPT ![t] = IF o.name = "Save" THEN "save"
                               ELSE IF o.name \in Readers THEN "rlock" ELSE "lock"]
    /\ calls' = calls + 1
    /\ ret' = [ret EXCEPT ![t] = NoRet]
    /\ UNCHANGED <<sessions, mu, messageStore, envVars, storeMu, pointCounter, points, clock,
                   idx, point, trace, localVars, fsVars>>

Call(t) ==
    /\ calls < MaxCalls
    /\ \E o \in Inputs : Invoke(t, o)

SeqCall(t) ==
    /\ calls < MaxSeqCalls
    /\ \E o \in SeqInputs : Invoke(t, o)

\* sm.mu.Lock()
Lock(t) ==
    /\ pc[t] = "lock"
    /\ CanLock(mu)
    /\ mu' = Locked(mu, t)
    /\ pc' = [pc EXCEPT ![t] = "locked"]
    /\ UNCHANGED <<sessions, messageStore, envVars, storeMu, pointCounter, points, clock,
                   op, idx, point, ret, trace, calls, localVars, fsVars>>

\* sm.mu.RLock()
RLock(t) ==
    /\ pc[t] = "rlock"
    /\ CanRLock(mu)
    /\ mu' = RLocked(mu, t)
    /\ pc' = [pc EXCEPT ![t] = "rlocked"]
    /\ UNCHANGED <<sessions, messageStore, envVars, storeMu, pointCounter, points, clock,
                   op, idx, point, ret, trace, calls, localVars, fsVars>>

\* The operation was called by the session tool, which goes on after it.
ByTool(o) == "action" \in DOMAIN o

\* The deferred sm.mu.Unlock() and the return of an operation that holds the lock.
Return(t, r) ==
    /\ mu' = Unlocked(mu)
    /\ pc' = [pc EXCEPT ![t] = IF ByTool(op[t]) THEN "tool" ELSE "idle"]
    /\ ret' = [ret EXCEPT ![t] = r]
    /\ op' = [op EXCEPT ![t] = IF ByTool(op[t]) THEN @ ELSE NoOp]
    /\ idx' = [idx EXCEPT ![t] = 0]
    /\ point' = [point EXCEPT ![t] = NoPoint]
    /\ trace' = [trace EXCEPT ![t] = NoTrace]

\* The deferred sm.mu.RUnlock() and the return of a reader.
RReturn(t, r) ==
    /\ mu' = RUnlocked(mu, t)
    /\ pc' = [pc EXCEPT ![t] = IF ByTool(op[t]) THEN "tool" ELSE "idle"]
    /\ ret' = [ret EXCEPT ![t] = r]
    /\ op' = [op EXCEPT ![t] = IF ByTool(op[t]) THEN @ ELSE NoOp]
    /\ idx' = [idx EXCEPT ![t] = 0]
    /\ point' = [point EXCEPT ![t] = NoPoint]
    /\ trace' = [trace EXCEPT ![t] = NoTrace]

\* GetOrCreate putting a new session under the key whether or not it has one.
GetOrCreateReset(t) ==
    /\ pc[t] = "locked"
    /\ op[t].name = "GetOrCreate"
    /\ LET key == op[t].key IN
        /\ clock' = clock + 1
        /\ sessions' = Put(key, NewSession(key, clock', clock'))
        /\ Return(t, [kind |-> "session", key |-> key])
    /\ UNCHANGED <<messageStore, envVars, storeMu, pointCounter, points, calls, localVars, fsVars>>

\* GetOrCreate without the lookup: it stores a new session under the key
\* whether or not there is one.
GetOrCreateAlways(t) ==
    /\ pc[t] = "locked"
    /\ op[t].name = "GetOrCreate"
    /\ LET key == op[t].key IN
        /\ clock' = clock + 1
        /\ sessions' = Put(key, NewSession(key, clock', clock'))
        /\ Return(t, [kind |-> "session", key |-> key])
    /\ UNCHANGED <<messageStore, envVars, storeMu, pointCounter, points, calls, localVars, fsVars>>

GetOrCreate(t) ==
    /\ pc[t] = "locked"
    /\ op[t].name = "GetOrCreate"
    /\ LET key == op[t].key IN
        IF key \in DOMAIN sessions
        THEN /\ Return(t, [kind |-> "session", key |-> key])
             /\ UNCHANGED <<sessions, clock>>
        ELSE /\ clock' = clock + 1
             /\ sessions' = Put(key, NewSession(key, clock', clock'))
             /\ Return(t, [kind |-> "session", key |-> key])
    /\ UNCHANGED <<messageStore, envVars, storeMu, pointCounter, points, calls, localVars, fsVars>>

\* AddFullMessage calling the message store with the lock held.
AddFullMessageKeepLock(t) ==
    /\ pc[t] = "locked"
    /\ op[t].name = "AddFullMessage"
    /\ LET sessionKey == op[t].key
           session == IF sessionKey \in DOMAIN sessions
                      THEN sessions[sessionKey]
                      ELSE NewSession(sessionKey, clock + 1, 0)
           msg == [op[t].msg EXCEPT !.id = clock + 1]
       IN
        /\ clock' = clock + 1
        /\ sessions' = Put(sessionKey, [session EXCEPT !.Messages = Append(@, msg),
                                                       !.Updated = clock'])
        /\ IF ShouldForward(sessionKey, op[t].msg)
           THEN /\ pc' = [pc EXCEPT ![t] = "index"]
                /\ trace' = [trace EXCEPT ![t].aidx = Len(session.Messages),
                                          ![t].mid = msg.id]
                /\ UNCHANGED <<mu, ret, op, idx, point>>
           ELSE Return(t, [kind |-> "void"])
    /\ UNCHANGED <<messageStore, envVars, storeMu, pointCounter, points, calls, localVars, fsVars>>

\* AddFullMessage returning after the append, the forwarding left to be
\* done later by someone else.
AddFullMessageAsync(t) ==
    /\ pc[t] = "locked"
    /\ op[t].name = "AddFullMessage"
    /\ LET sessionKey == op[t].key
           session == IF sessionKey \in DOMAIN sessions
                      THEN sessions[sessionKey]
                      ELSE NewSession(sessionKey, clock + 1, 0)
           msg == [op[t].msg EXCEPT !.id = clock + 1]
       IN
        /\ clock' = clock + 1
        /\ sessions' = Put(sessionKey, [session EXCEPT !.Messages = Append(@, msg),
                                                       !.Updated = clock'])
        /\ Return(t, [kind |-> "void"])
    /\ UNCHANGED <<messageStore, envVars, storeMu, pointCounter, points, calls, localVars, fsVars>>

\* AddFullMessage that forwards a message of a key without a session and
\* does not create the session.
AddFullMessageNoCreate(t) ==
    /\ pc[t] = "locked"
    /\ op[t].name = "AddFullMessage"
    /\ LET sessionKey == op[t].key
           session == IF sessionKey \in DOMAIN sessions
                      THEN sessions[sessionKey]
                      ELSE NewSession(sessionKey, clock + 1, 0)
           msg == [op[t].msg EXCEPT !.id = clock + 1]
       IN
        /\ clock' = clock + 1
        /\ sessions' = IF sessionKey \in DOMAIN sessions
                       THEN Put(sessionKey, [session EXCEPT !.Messages = Append(@, msg),
                                                            !.Updated = clock'])
                       ELSE sessions
        /\ IF ShouldForward(sessionKey, op[t].msg)
           THEN /\ mu' = Unlocked(mu)
                /\ pc' = [pc EXCEPT ![t] = "index"]
                /\ trace' = [trace EXCEPT ![t].aidx = Len(session.Messages),
                                          ![t].mid = msg.id]
                /\ UNCHANGED <<ret, op, idx, point>>
           ELSE Return(t, [kind |-> "void"])
    /\ UNCHANGED <<messageStore, envVars, storeMu, pointCounter, points, calls, localVars, fsVars>>

\* AddFullMessage that keeps the session lock while it calls the store.
AddFullMessageHoldingLock(t) ==
    /\ pc[t] = "locked"
    /\ op[t].name = "AddFullMessage"
    /\ LET sessionKey == op[t].key
           session == IF sessionKey \in DOMAIN sessions
                      THEN sessions[sessionKey]
                      ELSE NewSession(sessionKey, clock + 1, 0)
           msg == [op[t].msg EXCEPT !.id = clock + 1]
       IN
        /\ clock' = clock + 1
        /\ sessions' = Put(sessionKey, [session EXCEPT !.Messages = Append(@, msg),
                                                       !.Updated = clock'])
        /\ IF ShouldForward(sessionKey, op[t].msg)
           THEN /\ mu' = mu
                /\ pc' = [pc EXCEPT ![t] = "index"]
                /\ trace' = [trace EXCEPT ![t].aidx = Len(session.Messages),
                                          ![t].mid = msg.id]
                /\ UNCHANGED <<ret, op, idx, point>>
           ELSE Return(t, [kind |-> "void"])
    /\ UNCHANGED <<messageStore, envVars, storeMu, pointCounter, points, calls, localVars, fsVars>>

(***************************************************************************)
(* AddFullMessage, up to its first release of the lock: the append, and    *)
(* then either the return (nothing to forward) or the Unlock before the    *)
(* call of the message store.                                              *)
(***************************************************************************)
AddFullMessage(t) ==
    /\ pc[t] = "locked"
    /\ op[t].name = "AddFullMessage"
    /\ LET sessionKey == op[t].key
           session == IF sessionKey \in DOMAIN sessions
                      THEN sessions[sessionKey]
                      ELSE NewSession(sessionKey, clock + 1, 0)
           msg == [op[t].msg EXCEPT !.id = clock + 1]
       IN
        /\ clock' = clock + 1
        /\ sessions' = Put(sessionKey, [session EXCEPT !.Messages = Append(@, msg),
                                                       !.Updated = clock'])
        /\ IF ShouldForward(sessionKey, op[t].msg)
           THEN /\ mu' = Unlocked(mu)
                /\ pc' = [pc EXCEPT ![t] = "index"]
                /\ trace' = [trace EXCEPT ![t].aidx = Len(session.Messages),
                                          ![t].mid = msg.id]
                /\ UNCHANGED <<ret, op, idx, point>>
           ELSE Return(t, [kind |-> "void"])
    /\ UNCHANGED <<messageStore, envVars, storeMu, pointCounter, points, calls, localVars, fsVars>>

\* index := len(session.Messages) - 1, read after the Unlock.
ReadIndex(t) ==
    /\ pc[t] = "index"
    /\ idx' = [idx EXCEPT ![t] = Len(sessions[op[t].key].Messages) - 1]
    /\ pc' = [pc EXCEPT ![t] = "store"]
    /\ UNCHANGED <<sessions, mu, messageStore, envVars, storeMu, pointCounter, points, clock,
                   op, point, ret, trace, calls, localVars, fsVars>>

\* StoreMessage taking s.mu in shared mode.
StoreMessageLockShared(t) ==
    /\ pc[t] = "store"
    /\ CanRLock(storeMu)
    /\ storeMu' = RLocked(storeMu, t)
    /\ pc' = [pc EXCEPT ![t] = "embed"]
    /\ trace' = [trace EXCEPT ![t].forwarded = TRUE, ![t].net = @ + EmbeddingRequests]
    /\ UNCHANGED <<sessions, mu, messageStore, envVars, pointCounter, points, clock,
                   op, idx, point, ret, calls, localVars, fsVars>>

(***************************************************************************)
(* MessageStore.StoreMessage(sessionKey, msg, index), called by            *)
(* AddFullMessage or by a goroutine itself: s.mu.Lock(), then the          *)
(* embedding request is sent.                                              *)
(***************************************************************************)
StoreMessageLock(t) ==
    /\ pc[t] = "store"
    /\ CanLock(storeMu)
    /\ storeMu' = Locked(storeMu, t)
    /\ pc' = [pc EXCEPT ![t] = "embed"]
    /\ trace' = [trace EXCEPT ![t].forwarded = TRUE, ![t].net = @ + EmbeddingRequests]
    /\ UNCHANGED <<sessions, mu, messageStore, envVars, pointCounter, points, clock,
                   op, idx, point, ret, calls, localVars, fsVars>>

\* JSON values as they are held in a map[string]any: a string or a number.
Str(s) == [type |-> "string", val |-> s]
Num(n) == [type |-> "number", val |-> n]

\* structToMap(payload): the fields of MessagePayload under their json tags;
\* a time is written as a string.
structToMap(payload) ==
    [session_key |-> Str(payload.session_key),
     role |-> Str(payload.role),
     content |-> Str(payload.content),
     timestamp |-> Str(payload.timestamp),
     message_index |-> Num(payload.message_index)]

\* The vector that embeds text.
Embedding(text) == [of |-> text]

\* The payload of the point: MessagePayload, and (not in the code) the
\* identity and the append index of the message it was built for.
Payload(sessionKey, msg, index, t) ==
    [session_key |-> sessionKey, role |-> msg.Role, content |-> msg.Content,
     timestamp |-> clock, message_index |-> index,
     mid |-> trace[t].mid, aidx |-> trace[t].aidx]

\* A method of the MessageStore returns r to the goroutine that called it,
\* or to QdrantSearchTool.Execute, which goes on with r.
StoreReturn(t, r) ==
    /\ pc' = [pc EXCEPT ![t] = IF op[t].name = "Execute" THEN "searched" ELSE "idle"]
    /\ ret' = [ret EXCEPT ![t] = r]
    /\ op' = [op EXCEPT ![t] = IF op[t].name = "Execute" THEN @ ELSE NoOp]
    /\ idx' = [idx EXCEPT ![t] = 0]
    /\ point' = [point EXCEPT ![t] = NoPoint]
    /\ trace' = [trace EXCEPT ![t] = NoTrace]
    /\ results' = [results EXCEPT ![t] = <<>>]
    /\ batch' = [batch EXCEPT ![t] = <<>>]

\* The error value of a MessageStore method: "" stands for nil.
Error(err) == [kind |-> "error", err |-> IF err = "" THEN "nil" ELSE err]

\* StoreMessage's deferred s.mu.Unlock() and its return: to AddFullMessage,
\* which logs an error and goes on to its deferred sm.mu.Lock(), or to the
\* goroutine that called StoreMessage itself.
StoreMessageReturn(t, err) ==
    /\ storeMu' = Unlocked(storeMu)
    /\ IF op[t].name = "AddFullMessage"
       THEN /\ pc' = [pc EXCEPT ![t] = "relock"]
            /\ ret' = [ret EXCEPT ![t] = [kind |-> "pending", storeErr |-> err]]
            /\ UNCHANGED <<op, idx, point, trace, results, batch>>
       ELSE StoreReturn(t, Error(err))

\* EmbeddingDone with the point's ID taken from the counter, and the counter
\* left as it is.
EmbeddingDoneStaleID(t) ==
    /\ pc[t] = "embed"
    /\ \/ /\ StoreMessageReturn(t, "embedding")
          /\ UNCHANGED pointCounter
       \/ /\ apiKey # ""
          /\ pointCounter' = pointCounter
          /\ point' = [point EXCEPT ![t] =
                         LET payload == Payload(op[t].key, op[t].msg, idx[t], t) IN
                         [ID |-> pointCounter + 1, Vector |-> Embedding(op[t].msg.Content),
                          Payload |-> payload, Map |-> structToMap(payload)]]
          /\ pc' = [pc EXCEPT ![t] = "upsert"]
          /\ trace' = [trace EXCEPT ![t].net = @ + 1]
          /\ UNCHANGED <<storeMu, ret, op, idx, results, batch>>
    /\ UNCHANGED <<sessions, mu, messageStore, envVars, points, clock, calls, held, fsVars>>

\* EmbeddingDone with a GenerateEmbedding that sends its request without a
\* credential.
EmbeddingDoneNoCredential(t) ==
    /\ pc[t] = "embed"
    /\ \/ /\ StoreMessageReturn(t, "embedding")
          /\ UNCHANGED pointCounter
       \/ /\ pointCounter' = pointCounter + 1
          /\ point' = [point EXCEPT ![t] =
                         LET payload == Payload(op[t].key, op[t].msg, idx[t], t) IN
                         [ID |-> pointCounter', Vector |-> Embedding(op[t].msg.Content),
                          Payload |-> payload, Map |-> structToMap(payload)]]
          /\ pc' = [pc EXCEPT ![t] = "upsert"]
          /\ trace' = [trace EXCEPT ![t].net = @ + 1]
          /\ UNCHANGED <<storeMu, ret, op, idx, results, batch>>
    /\ UNCHANGED <<sessions, mu, messageStore, envVars, points, clock, calls, held, fsVars>>

\* GenerateEmbedding returns (a timeout is a failure): on failure StoreMessage
\* returns the error, on success it builds the point and sends the upsert.
EmbeddingDone(t) ==
    /\ pc[t] = "embed"
    /\ \/ /\ StoreMessageReturn(t, "embedding")
          /\ UNCHANGED pointCounter
       \/ /\ apiKey # ""
          /\ pointCounter' = pointCounter + 1
          /\ point' = [point EXCEPT ![t] =
                         LET payload == Payload(op[t].key, op[t].msg, idx[t], t) IN
                         [ID |-> pointCounter', Vector |-> Embedding(op[t].msg.Content),
                          Payload |-> payload, Map |-> structToMap(payload)]]
          /\ pc' = [pc EXCEPT ![t] = "upsert"]
          /\ trace' = [trace EXCEPT ![t].net = @ + 1]
          /\ UNCHANGED <<storeMu, ret, op, idx, results, batch>>
    /\ UNCHANGED <<sessions, mu, messageStore, envVars, points, clock, calls, held, fsVars>>

\* The collection after the database has served a PUT of the points new: a
\* point of the collection with the ID of a new one is replaced by it.
UpsertPoints(coll, new) ==
    SelectSeq(coll, LAMBDA p : \A i \in 1..Len(new) : new[i].ID # p.ID) \o new

\* UpsertDone with a database that keeps the point although it answers
\* with an error.
UpsertDoneKept(t) ==
    /\ pc[t] = "upsert"
    /\ \/ /\ points' = UpsertPoints(points, <<point[t]>>)
          /\ StoreMessageReturn(t, "")
       \/ /\ points' = UpsertPoints(points, <<point[t]>>)
          /\ StoreMessageReturn(t, "upsert")
    /\ UNCHANGED <<sessions, mu, messageStore, envVars, pointCounter, clock, calls, held, fsVars>>

\* UpsertPoints returns: the point is in the collection, or the request failed.
UpsertDone(t) ==
    /\ pc[t] = "upsert"
    /\ \/ /\ points' = UpsertPoints(points, <<point[t]>>)
          /\ StoreMessageReturn(t, "")
       \/ /\ UNCHANGED points
          /\ StoreMessageReturn(t, "upsert")
    /\ UNCHANGED <<sessions, mu, messageStore, envVars, pointCounter, clock, calls, held, fsVars>>

\* The deferred sm.mu.Lock() of AddFullMessage.
Relock(t) ==
    /\ pc[t] = "relock"
    /\ CanLock(mu)
    /\ mu' = Locked(mu, t)
    /\ pc' = [pc EXCEPT ![t] = "relocked"]
    /\ UNCHANGED <<sessions, messageStore, envVars, storeMu, pointCounter, points, clock,
                   op, idx, point, ret, trace, calls, localVars, fsVars>>

\* AddFullMessage returning the message store's error to its caller.
AddFullMessageReturnError(t) ==
    /\ pc[t] = "relocked"
    /\ Return(t, IF ret[t].storeErr = "" THEN [kind |-> "void"]
                 ELSE [kind |-> "error", err |-> ret[t].storeErr])
    /\ UNCHANGED <<sessions, messageStore, envVars, storeMu, pointCounter, points, clock,
                   calls, localVars, fsVars>>

\* The deferred sm.mu.Unlock() of AddFullMessage; it returns nothing.
AddFullMessageReturn(t) ==
    /\ pc[t] = "relocked"
    /\ Return(t, [kind |-> "void"])
    /\ UNCHANGED <<sessions, messageStore, envVars, storeMu, pointCounter, points, clock,
                   calls, localVars, fsVars>>

\* GetHistory returning session.Messages itself.
GetHistoryNoCopy(t) ==
    /\ pc[t] = "rlocked"
    /\ op[t].name = "GetHistory"
    /\ LET key == op[t].key IN
        RReturn(t, [kind |-> "history",
                    history |-> IF key \in DOMAIN sessions
                                THEN sessions[key].Messages ELSE <<>>,
                    shares |-> IF key \in DOMAIN sessions THEN key ELSE NoKey])
    /\ UNCHANGED <<sessions, messageStore, envVars, storeMu, pointCounter, points, clock,
                   calls, localVars, fsVars>>

\* GetHistory: the result is a new slice (make and copy) with the elements
\* of session.Messages, or an empty one.
GetHistory(t) ==
    /\ pc[t] = "rlocked"
    /\ op[t].name = "GetHistory"
    /\ LET key == op[t].key IN
        RReturn(t, [kind |-> "history",
                    history |-> IF key \in DOMAIN sessions
                                THEN sessions[key].Messages ELSE <<>>,
                    shares |-> NoKey])
    /\ UNCHANGED <<sessions, messageStore, envVars, storeMu, pointCounter, points, clock,
                   calls, localVars, fsVars>>

GetSummary(t) ==
    /\ pc[t] = "rlocked"
    /\ op[t].name = "GetSummary"
    /\ LET key == op[t].key IN
        RReturn(t, [kind |-> "summary",
                    summary |-> IF key \in DOMAIN sessions
                                THEN sessions[key].Summary ELSE ""])
    /\ UNCHANGED <<sessions, messageStore, envVars, storeMu, pointCounter, points, clock,
                   calls, localVars, fsVars>>

SetSummary(t) ==
    /\ pc[t] = "locked"
    /\ op[t].name = "SetSummary"
    /\ LET key == op[t].key IN
        IF key \in DOMAIN sessions
        THEN /\ clock' = clock + 1
             /\ sessions' = [sessions EXCEPT ![key].Summary = op[t].summary,
                                             ![key].Updated = clock']
        ELSE UNCHANGED <<sessions, clock>>
    /\ Return(t, [kind |-> "void"])
    /\ UNCHANGED <<messageStore, envVars, storeMu, pointCounter, points, calls, localVars, fsVars>>

\* TruncateHistory keeping the first keepLast messages.
TruncateHistoryFirst(t) ==
    /\ pc[t] = "locked"
    /\ op[t].name = "TruncateHistory"
    /\ LET key == op[t].key
           keepLast == op[t].keepLast
       IN
        IF key \notin DOMAIN sessions
        THEN UNCHANGED <<sessions, clock>>
        ELSE IF keepLast <= 0
        THEN /\ clock' = clock + 1
             /\ sessions' = [sessions EXCEPT ![key].Messages = <<>>,
                                             ![key].Updated = clock']
        ELSE IF Len(sessions[key].Messages) <= keepLast
        THEN UNCHANGED <<sessions, clock>>
        ELSE /\ clock' = clock + 1
             /\ sessions' = [sessions EXCEPT ![key].Messages = SubSeq(@, 1, keepLast),
                                             ![key].Updated = clock']
    /\ Return(t, [kind |-> "void"])
    /\ UNCHANGED <<messageStore, envVars, storeMu, pointCounter, points, calls, localVars, fsVars>>

\* TruncateHistory emptying every session when keepLast <= 0.
TruncateHistoryAll(t) ==
    /\ pc[t] = "locked"
    /\ op[t].name = "TruncateHistory"
    /\ LET key == op[t].key
           keepLast == op[t].keepLast
       IN
        IF key \notin DOMAIN sessions
        THEN UNCHANGED <<sessions, clock>>
        ELSE IF keepLast <= 0
        THEN /\ clock' = clock + 1
             /\ sessions' = [k \in DOMAIN sessions |->
                                [sessions[k] EXCEPT !.Messages = <<>>, !.Updated = clock']]
        ELSE IF Len(sessions[key].Messages) <= keepLast
        THEN UNCHANGED <<sessions, clock>>
        ELSE /\ clock' = clock + 1
             /\ sessions' = [sessions EXCEPT ![key].Messages = LastN(@, keepLast),
                                             ![key].Updated = clock']
    /\ Return(t, [kind |-> "void"])
    /\ UNCHANGED <<messageStore, envVars, storeMu, pointCounter, points, calls, localVars, fsVars>>

\* TruncateHistory that also deletes the session's points when it clears
\* the history.
TruncateHistoryPurge(t) ==
    /\ pc[t] = "locked"
    /\ op[t].name = "TruncateHistory"
    /\ LET key == op[t].key
           keepLast == op[t].keepLast
       IN
        IF key \notin DOMAIN sessions
        THEN UNCHANGED <<sessions, clock, points>>
        ELSE IF keepLast <= 0
        THEN /\ clock' = clock + 1
             /\ sessions' = [sessions EXCEPT ![key].Messages = <<>>,
                                             ![key].Updated = clock']
             /\ points' = SelectSeq(points, LAMBDA p :
                             ~("session_key" \in DOMAIN p.Map
                                 /\ p.Map.session_key = Str(key)))
        ELSE IF Len(sessions[key].Messages) <= keepLast
        THEN UNCHANGED <<sessions, clock, points>>
        ELSE /\ clock' = clock + 1
             /\ sessions' = [sessions EXCEPT ![key].Messages = LastN(@, keepLast),
                                             ![key].Updated = clock']
             /\ UNCHANGED points
    /\ Return(t, [kind |-> "void"])
    /\ UNCHANGED <<messageStore, envVars, storeMu, pointCounter, calls, localVars, fsVars>>

TruncateHistory(t) ==
    /\ pc[t] = "locked"
    /\ op[t].name = "TruncateHistory"
    /\ LET key == op[t].key
           keepLast == op[t].keepLast
       IN
        IF key \notin DOMAIN sessions
        THEN UNCHANGED <<sessions, clock>>
        ELSE IF keepLast <= 0
        THEN /\ clock' = clock + 1
             /\ sessions' = [sessions EXCEPT ![key].Messages = <<>>,
                                             ![key].Updated = clock']
        ELSE IF Len(sessions[key].Messages) <= keepLast
        THEN UNCHANGED <<sessions, clock>>
        ELSE /\ clock' = clock + 1
             /\ sessions' = [sessions EXCEPT ![key].Messages = LastN(@, keepLast),
                                             ![key].Updated = clock']
    /\ Return(t, [kind |-> "void"])
    /\ UNCHANGED <<messageStore, envVars, storeMu, pointCounter, points, calls, localVars, fsVars>>

SetHistory(t) ==
    /\ pc[t] = "locked"
    /\ op[t].name = "SetHistory"
    /\ LET key == op[t].key IN
        IF key \in DOMAIN sessions
        THEN /\ clock' = clock + 1
             /\ sessions' = [sessions EXCEPT ![key].Messages = op[t].history,
                                             ![key].Updated = clock']
        ELSE UNCHANGED <<sessions, clock>>
    /\ Return(t, [kind |-> "void"])
    /\ UNCHANGED <<messageStore, envVars, storeMu, pointCounter, points, calls, localVars, fsVars>>

(***************************************************************************)
(* Save(key): the file name, the snapshot under the read lock, and the     *)
(* file steps, each of which can fail.                                     *)
(***************************************************************************)
\* strings.Replace(key, ":", "_", 1): the first occurrence only.
sanitizeFilenameFirst(key) ==
    [i \in 1..Len(key) |->
        IF key[i] = ":" /\ \A j \in 1..(i - 1) : key[j] # ":" THEN "_" ELSE key[i]]

\* strings.ReplaceAll(key, ":", "_")
sanitizeFilename(key) ==
    [i \in 1..Len(key) |-> IF key[i] = ":" THEN "_" ELSE key[i]]

\* strings.ContainsAny(s, chars)
ContainsAny(s, chars) == \E i \in 1..Len(s) : s[i] \in chars

\* The elements of a path between its "/" separators.
RECURSIVE PathElements(_, _)
PathElements(path, element) ==
    IF path = <<>> THEN <<element>>
    ELSE IF Head(path) = "/" THEN <<element>> \o PathElements(Tail(path), <<>>)
    ELSE PathElements(Tail(path), Append(element, Head(path)))

\* Whether the cleaned path is ".." or starts with "../": some ".." element
\* has no element before it to cancel.
RECURSIVE Escapes(_, _)
Escapes(elements, depth) ==
    IF elements = <<>> THEN FALSE
    ELSE LET e == Head(elements) IN
        IF e = <<>> \/ e = <<".">> THEN Escapes(Tail(elements), depth)
        ELSE IF e = <<".", ".">>
             THEN depth = 0 \/ Escapes(Tail(elements), depth - 1)
             ELSE Escapes(Tail(elements), depth + 1)

\* filepath.IsLocal(path), on a system whose separator is "/".
IsLocal(path) ==
    /\ path # <<>>
    /\ Head(path) # "/"
    /\ ~Escapes(PathElements(path, <<>>), 0)

\* The file name check of Save without the check for ".".
InvalidFilenameNoDot(filename) ==
    \/ ~IsLocal(filename)
    \/ ContainsAny(filename, {"/", "\\"})

\* The file name check of Save.
InvalidFilename(filename) ==
    \/ filename = <<".">>
    \/ ~IsLocal(filename)
    \/ ContainsAny(filename, {"/", "\\"})

\* sessionPath: the name under which the snapshot of key is kept.
SessionPath(key) == sanitizeFilename(key) \o <<".", "j", "s", "o", "n">>

\* json.MarshalIndent(snapshot): the object with the tags of Session; summary
\* is left out when empty.  A message is written with its role, its content
\* and its tool calls.
MarshalMessage(m) ==
    [role |-> m.Role, content |-> m.Content, tool_calls |-> m.ToolCalls]

MarshalIndent(session) ==
    LET fields == IF session.Summary = ""
                  THEN {"key", "messages", "created", "updated"}
                  ELSE {"key", "messages", "summary", "created", "updated"}
    IN  [f \in fields |->
            IF f = "key" THEN session.Key
            ELSE IF f = "messages"
                 THEN [i \in 1..Len(session.Messages) |->
                          MarshalMessage(session.Messages[i])]
            ELSE IF f = "summary" THEN session.Summary
            ELSE IF f = "created" THEN session.Created
            ELSE session.Updated]

\* Save returns r; it holds no lock.
SaveReturn(t, r) ==
    /\ pc' = [pc EXCEPT ![t] = "idle"]
    /\ ret' = [ret EXCEPT ![t] = r]
    /\ op' = [op EXCEPT ![t] = NoOp]
    /\ snapshot' = [snapshot EXCEPT ![t] = NoSnapshot]

\* Save up to sm.mu.RLock().
Save(t) ==
    /\ pc[t] = "save"
    /\ IF storage = ""
       THEN SaveReturn(t, [kind |-> "error", err |-> "nil"])
       ELSE IF InvalidFilename(sanitizeFilename(op[t].key))
       THEN SaveReturn(t, [kind |-> "error", err |-> "ErrInvalid"])
       ELSE /\ pc' = [pc EXCEPT ![t] = "rlock"]
            /\ UNCHANGED <<ret, op, snapshot>>
    /\ UNCHANGED <<sessions, mu, messageStore, envVars, storeMu, pointCounter, points, clock,
                   idx, point, trace, calls, localVars, storage, files, tmp, crashed>>

\* The snapshot under the read lock: the lookup of the session, and the
\* struct with its Key, Summary, Created and Updated.
SaveSnapshot(t) ==
    /\ pc[t] = "rlocked"
    /\ op[t].name = "Save"
    /\ IF op[t].key \notin DOMAIN sessions
       THEN /\ mu' = RUnlocked(mu, t)
            /\ SaveReturn(t, [kind |-> "error", err |-> "nil"])
       ELSE /\ snapshot' = [snapshot EXCEPT ![t] =
                               [sessions[op[t].key] EXCEPT !.Messages = <<>>]]
            /\ pc' = [pc EXCEPT ![t] = "copy"]
            /\ UNCHANGED <<ret, op, mu>>
    /\ UNCHANGED <<sessions, messageStore, envVars, storeMu, pointCounter, points, clock,
                   idx, point, trace, calls, localVars, storage, files, tmp, crashed>>

\* Save copying the messages after it has released the read lock.
SaveCopyUnlocked(t) ==
    /\ pc[t] = "copy"
    /\ \/ /\ t \in mu.r
          /\ mu' = RUnlocked(mu, t)
          /\ UNCHANGED <<snapshot, pc>>
       \/ /\ t \notin mu.r
          /\ snapshot' = [snapshot EXCEPT ![t].Messages = sessions[op[t].key].Messages]
          /\ pc' = [pc EXCEPT ![t] = "create"]
          /\ UNCHANGED mu
    /\ UNCHANGED <<sessions, messageStore, envVars, storeMu, pointCounter, points, clock,
                   op, idx, point, ret, trace, calls, localVars, storage, files, tmp, crashed>>

\* The copy of the messages into the snapshot, still under the read lock,
\* and sm.mu.RUnlock().
SaveCopy(t) ==
    /\ pc[t] = "copy"
    /\ snapshot' = [snapshot EXCEPT ![t].Messages = sessions[op[t].key].Messages]
    /\ mu' = RUnlocked(mu, t)
    /\ pc' = [pc EXCEPT ![t] = "create"]
    /\ UNCHANGED <<sessions, messageStore, envVars, storeMu, pointCounter, points, clock,
                   op, idx, point, ret, trace, calls, localVars, storage, files, tmp, crashed>>

\* A file step of Save failed after the temporary file was created: the
\* file is closed and Save returns the error, with cleanup still true.
SaveFail(t, err) ==
    /\ pc' = [pc EXCEPT ![t] = "cleanup"]
    /\ ret' = [ret EXCEPT ![t] = [kind |-> "pending", err |-> err]]

\* os.CreateTemp(sm.storage, "session-*.tmp")
CreateTemp(t) ==
    /\ pc[t] = "create"
    /\ \/ /\ tmp' = [tmp EXCEPT ![t] = [content |-> "empty", data |-> snapshot[t],
                                        json |-> MarshalIndent(snapshot[t]),
                                        synced |-> FALSE, mode |-> "0600"]]
          /\ pc' = [pc EXCEPT ![t] = "write"]
          /\ UNCHANGED <<ret, op, snapshot>>
       \/ /\ SaveReturn(t, [kind |-> "error", err |-> "create"])
          /\ UNCHANGED tmp
    /\ UNCHANGED <<sessions, mu, messageStore, envVars, storeMu, pointCounter, points, clock,
                   idx, point, trace, calls, localVars, storage, files, crashed>>

\* tmpFile.Write(data): all of data is written, or the write fails after
\* none or a part of it.
Write(t) ==
    /\ pc[t] = "write"
    /\ \/ /\ tmp' = [tmp EXCEPT ![t].content = "full"]
          /\ pc' = [pc EXCEPT ![t] = "chmod"]
          /\ UNCHANGED ret
       \/ /\ \E c \in {"empty", "partial"} : tmp' = [tmp EXCEPT ![t].content = c]
          /\ SaveFail(t, "write")
    /\ UNCHANGED <<sessions, mu, messageStore, envVars, storeMu, pointCounter, points, clock,
                   op, idx, point, trace, calls, localVars, storage, files, snapshot, crashed>>

\* tmpFile.Chmod(0o644)
Chmod(t) ==
    /\ pc[t] = "chmod"
    /\ \/ /\ tmp' = [tmp EXCEPT ![t].mode = "0644"]
          /\ pc' = [pc EXCEPT ![t] = "sync"]
          /\ UNCHANGED ret
       \/ /\ SaveFail(t, "chmod")
          /\ UNCHANGED tmp
    /\ UNCHANGED <<sessions, mu, messageStore, envVars, storeMu, pointCounter, points, clock,
                   op, idx, point, trace, calls, localVars, storage, files, snapshot, crashed>>

\* Save without the flush of the temporary file to stable storage.
SyncSkipped(t) ==
    /\ pc[t] = "sync"
    /\ \/ /\ pc' = [pc EXCEPT ![t] = "close"]
          /\ UNCHANGED <<ret, tmp>>
       \/ /\ SaveFail(t, "sync")
          /\ UNCHANGED tmp
    /\ UNCHANGED <<sessions, mu, messageStore, envVars, storeMu, pointCounter, points, clock,
                   op, idx, point, trace, calls, localVars, storage, files, snapshot, crashed>>

\* tmpFile.Sync()
Sync(t) ==
    /\ pc[t] = "sync"
    /\ \/ /\ tmp' = [tmp EXCEPT ![t].synced = TRUE]
          /\ pc' = [pc EXCEPT ![t] = "close"]
          /\ UNCHANGED ret
       \/ /\ SaveFail(t, "sync")
          /\ UNCHANGED tmp
    /\ UNCHANGED <<sessions, mu, messageStore, envVars, storeMu, pointCounter, points, clock,
                   op, idx, point, trace, calls, localVars, storage, files, snapshot, crashed>>

\* tmpFile.Close()
Close(t) ==
    /\ pc[t] = "close"
    /\ \/ /\ pc' = [pc EXCEPT ![t] = "rename"]
          /\ UNCHANGED ret
       \/ SaveFail(t, "close")
    /\ UNCHANGED <<sessions, mu, messageStore, envVars, storeMu, pointCounter, points, clock,
                   op, idx, point, trace, calls, localVars, fsVars>>

\* Rename with cleanup = false set before the rename instead of after it.
RenameNoCleanup(t) ==
    /\ pc[t] = "rename"
    /\ \/ /\ LET sessionPath == SessionPath(op[t].key) IN
              files' = [n \in DOMAIN files \cup {sessionPath} |->
                          IF n = sessionPath THEN tmp[t] ELSE files[n]]
          /\ tmp' = [tmp EXCEPT ![t] = NoFile]
          /\ SaveReturn(t, [kind |-> "error", err |-> "nil"])
       \/ /\ SaveReturn(t, [kind |-> "error", err |-> "rename"])
          /\ UNCHANGED <<files, tmp>>
    /\ UNCHANGED <<sessions, mu, messageStore, envVars, storeMu, pointCounter, points, clock,
                   idx, point, trace, calls, localVars, storage, crashed>>

\* os.Rename(tmpPath, sessionPath): the temporary file takes the final name
\* in one step, or nothing changes.  On success cleanup = false and Save
\* returns nil.
Rename(t) ==
    /\ pc[t] = "rename"
    /\ \/ /\ LET sessionPath == SessionPath(op[t].key) IN
              files' = [n \in DOMAIN files \cup {sessionPath} |->
                          IF n = sessionPath THEN tmp[t] ELSE files[n]]
          /\ tmp' = [tmp EXCEPT ![t] = NoFile]
          /\ SaveReturn(t, [kind |-> "error", err |-> "nil"])
       \/ /\ SaveFail(t, "rename")
          /\ UNCHANGED <<files, tmp, op, snapshot>>
    /\ UNCHANGED <<sessions, mu, messageStore, envVars, storeMu, pointCounter, points, clock,
                   idx, point, trace, calls, localVars, storage, crashed>>

\* The deferred os.Remove(tmpPath) when cleanup is true, and the return of
\* the error.  The removal of a file this call has just created is taken to
\* succeed (its own error is dropped by the code).
Cleanup(t) ==
    /\ pc[t] = "cleanup"
    /\ tmp' = [tmp EXCEPT ![t] = NoFile]
    /\ SaveReturn(t, [kind |-> "error", err |-> ret[t].err])
    /\ UNCHANGED <<sessions, mu, messageStore, envVars, storeMu, pointCounter, points, clock,
                   idx, point, trace, calls, localVars, storage, files, crashed>>

(***************************************************************************)
(* The process crashes: the goroutines, the sessions in memory and the     *)
(* locks are gone.  A file keeps its name; what was not synced may be on   *)
(* stable storage in full, in part or not at all.                          *)
(***************************************************************************)
AfterCrash(f) ==
    IF f = NoFile THEN {NoFile}
    ELSE IF f.synced THEN {f}
    ELSE {[f EXCEPT !.content = c] : c \in {"empty", "partial", f.content}}

Crash ==
    /\ ~crashed
    /\ storage # ""
    /\ crashed' = TRUE
    /\ pc' = [t \in Threads |-> "crashed"]
    /\ op' = [t \in Threads |-> NoOp]
    /\ ret' = [t \in Threads |-> NoRet]
    /\ snapshot' = [t \in Threads |-> NoSnapshot]
    /\ sessions' = << >>
    /\ mu' = Free
    /\ tmp' \in [Threads -> UNION {AfterCrash(tmp[t]) : t \in Threads}]
    /\ \A t \in Threads : tmp'[t] \in AfterCrash(tmp[t])
    /\ files' \in [DOMAIN files -> UNION {AfterCrash(files[n]) : n \in DOMAIN files}]
    /\ \A n \in DOMAIN files : files'[n] \in AfterCrash(files[n])
    /\ UNCHANGED <<messageStore, envVars, storeMu, pointCounter, points, clock,
                   idx, point, trace, calls, localVars, storage>>

Step(t) ==
    \/ Lock(t)
    \/ RLock(t)
    \/ GetOrCreate(t)
    \/ AddFullMessage(t)
    \/ ReadIndex(t)
    \/ StoreMessageLock(t)
    \/ EmbeddingDone(t)
    \/ UpsertDone(t)
    \/ Relock(t)
    \/ AddFullMessageReturn(t)
    \/ GetHistory(t)
    \/ GetSummary(t)
    \/ SetSummary(t)
    \/ TruncateHistory(t)
    \/ SetHistory(t)

Next == \E t \in Threads : Call(t) \/ Step(t)

Spec == Init /\ [][Next]_vars

SeqNext == SeqCall("g1") \/ Step("g1")

SeqSpec == Init /\ [][SeqNext]_vars

(***************************************************************************)
(* SaveSpec: sessions kept in a directory, no message store.  Goroutines   *)
(* save sessions while others change them; any file step can fail and the  *)
(* process can crash at any moment.                                        *)
(***************************************************************************)
SaveInputs ==
    [name : {"Save"}, key : {KeyA, <<".", ".">>}]
    \cup [name : {"AddFullMessage"}, key : {KeyA}, msg : {UserMsg}]
    \cup [name : {"SetSummary"}, key : {KeyA}, summary : SummaryTexts]

SaveInit ==
    /\ Start
    /\ messageStore = "nil"
    /\ storage \in {"", "sessions"}
    /\ Configured

SaveCall(t) ==
    /\ calls < MaxSaveCalls
    /\ \E o \in SaveInputs : Invoke(t, o)

SaveStep(t) ==
    \/ Lock(t)
    \/ RLock(t)
    \/ AddFullMessage(t)
    \/ SetSummary(t)
    \/ Save(t)
    \/ SaveSnapshot(t)
    \/ SaveCopy(t)
    \/ CreateTemp(t)
    \/ Write(t)
    \/ Chmod(t)
    \/ Sync(t)
    \/ Close(t)
    \/ Rename(t)
    \/ Cleanup(t)

SaveNext == Crash \/ \E t \in Threads : SaveCall(t) \/ SaveStep(t)

SaveSpec == SaveInit /\ [][SaveNext]_vars

(***************************************************************************)
(* PathSpec: one goroutine creates sessions and saves them under keys of   *)
(* every shape the file name check of Save tells apart, with and without   *)
(* a storage directory.                                                    *)
(***************************************************************************)
\* Number of operations invoked under PathSpec.
MaxPathCalls == 3

\* Keys whose sanitized file name is empty, ".", "..", has a separator or
\* leaves the directory.
BadKeys ==
    {<<>>, <<".">>, <<".", ".">>, <<"a", "/", "b">>, <<"a", "\\", "b">>,
     <<".", ".", "/", "a">>, <<":", "/", ".", ".">>}

PathKeys == BadKeys \cup {KeyA, <<".", ".", ":">>}

PathInputs ==
    [name : {"Save", "GetOrCreate"}, key : PathKeys]

PathInit ==
    /\ Start
    /\ messageStore = "nil"
    /\ storage \in {"", "sessions"}
    /\ Configured

PathCall(t) ==
    /\ calls < MaxPathCalls
    /\ \E o \in PathInputs : Invoke(t, o)

PathStep(t) ==
    \/ Lock(t)
    \/ RLock(t)
    \/ GetOrCreate(t)
    \/ Save(t)
    \/ SaveSnapshot(t)
    \/ SaveCopy(t)
    \/ CreateTemp(t)
    \/ Write(t)
    \/ Chmod(t)
    \/ Sync(t)
    \/ Close(t)
    \/ Rename(t)
    \/ Cleanup(t)

PathNext == PathCall("g1") \/ PathStep("g1")

PathSpec == PathInit /\ [][PathNext]_vars

(***************************************************************************)
(* loadSessions: the sessions of the snapshot files of the directory.      *)
(***************************************************************************)
\* Ext that takes every file for a snapshot.
ExtAlwaysJson(name) == <<".", "j", "s", "o", "n">>

\* filepath.Ext(name): the suffix of name that starts at its last ".".
Ext(name) ==
    LET dots == {i \in 1..Len(name) : name[i] = "."} IN
        IF dots = {} THEN <<>>
        ELSE SubSeq(name, CHOOSE i \in dots : \A j \in dots : j <= i, Len(name))

\* The name of a temporary file left behind by a Save that did not finish.
TmpName == <<"s", "e", "s", "s", "i", "o", "n", "-", "1", ".", "t", "m", "p">>

\* The file names of the directories of LoadSpec, in the order of os.ReadDir
\* (sorted by name).
DirNames == <<SessionPath(KeyA), SessionPath(KeyB), TmpName>>

\* os.ReadDir(sm.storage)
ReadDir(dir) == SelectSeq(DirNames, LAMBDA n : n \in DOMAIN dir)

\* os.ReadFile fails on a file without read permission.
Readable(file) == file.mode # "0000"

\* json.Unmarshal fails on anything but the complete bytes of an object.
Parses(file) == file.content = "full"

UnmarshalMessage(j) ==
    [Role |-> j.role, Content |-> j.content, ToolCalls |-> j.tool_calls, id |-> 0]

\* json.Unmarshal(data, &session): a field that is not in the object keeps
\* its zero value.
Unmarshal(json) ==
    [Key |-> json.key,
     Messages |-> [i \in 1..Len(json.messages) |-> UnmarshalMessage(json.messages[i])],
     Summary |-> IF "summary" \in DOMAIN json THEN json.summary ELSE "",
     Created |-> json.created,
     Updated |-> json.updated]

\* loaded[key] = session
PutIn(loaded, key, session) ==
    [k \in DOMAIN loaded \cup {key} |-> IF k = key THEN session ELSE loaded[k]]

\* The loop of loadSessions, with the session kept under the name of its
\* file instead of under session.Key.
RECURSIVE loadFilesByName(_, _, _)
loadFilesByName(dir, names, loaded) ==
    IF names = <<>> THEN loaded
    ELSE LET name == Head(names)
             file == dir[name]
         IN  IF Ext(name) # <<".", "j", "s", "o", "n">> \/ ~Readable(file) \/ ~Parses(file)
             THEN loadFilesByName(dir, Tail(names), loaded)
             ELSE loadFilesByName(dir, Tail(names),
                                  PutIn(loaded, SubSeq(name, 1, Len(name) - 5),
                                        Unmarshal(file.json)))

\* The loop of loadSessions over the entries of the directory.
RECURSIVE loadFiles(_, _, _)
loadFiles(dir, names, loaded) ==
    IF names = <<>> THEN loaded
    ELSE LET name == Head(names)
             file == dir[name]
         IN  IF Ext(name) # <<".", "j", "s", "o", "n">> THEN loadFiles(dir, Tail(names), loaded)
             ELSE IF ~Readable(file) THEN loadFiles(dir, Tail(names), loaded)
             ELSE IF ~Parses(file) THEN loadFiles(dir, Tail(names), loaded)
             ELSE LET session == Unmarshal(file.json) IN
                    loadFiles(dir, Tail(names), PutIn(loaded, session.Key, session))

loadSessions(dir) == loadFiles(dir, ReadDir(dir), << >>)

\* NewSessionManagerWithConfig(storagePath, cfg): the sessions are those of
\* the directory; the error of loadSessions is dropped.  With Qdrant.Enabled
\* it goes on to NewMessageStore.
NewSessionManagerWithConfig(t) ==
    /\ pc[t] = "new"
    /\ sessions' = IF storage # "" THEN loadSessions(files) ELSE << >>
    /\ pc' = [pc EXCEPT ![t] = IF storageCfg.Qdrant.Enabled THEN "probe" ELSE "idle"]
    /\ UNCHANGED <<mu, messageStore, envVars, storeMu, pointCounter, points, clock,
                   op, idx, point, ret, trace, calls, localVars, fsVars>>

\* The points of the collection that this run of the process wrote through
\* AddFullMessage, in the order it wrote them: those of the messages appended
\* since the run before ended.
Written ==
    SelectSeq(points, LAMBDA p : "Payload" \in DOMAIN p /\ p.Payload.mid > previous.until)

\* The process ends while it is idle; its directory and the collection stay.
Exit(t) ==
    /\ pc[t] = "idle"
    /\ calls' = calls + 1
    /\ pc' = [pc EXCEPT ![t] = "new"]
    /\ sessions' = << >>
    /\ ret' = [ret EXCEPT ![t] = NoRet]
    /\ previous' = [ids |-> [i \in 1..Len(Written) |-> Written[i].ID],
                    counter |-> pointCounter,
                    until |-> clock]
    /\ UNCHANGED <<mu, messageStore, storageCfg, collection, provider, parked, storeMu,
                   pointCounter, points, clock, op, idx, point, trace, localVars, fsVars>>

(***************************************************************************)
(* LoadSpec: a store is made over a directory that holds snapshots, files  *)
(* that cannot be parsed or read, and temporary files left behind; one     *)
(* goroutine changes and saves sessions, and the process ends and starts   *)
(* again over the same directory.                                          *)
(***************************************************************************)
\* Number of operations invoked under LoadSpec, the ends of the process included.
MaxLoadCalls == 3

\* Sessions saved by an earlier process.
SessA ==
    [Key |-> KeyA, Messages |-> <<UserMsg, ToolCallMsg>>, Summary |-> "s0",
     Created |-> -2, Updated |-> -1]
SessB ==
    [Key |-> KeyB, Messages |-> <<>>, Summary |-> "", Created |-> -1, Updated |-> -1]
SessBLater ==
    [Key |-> KeyB, Messages |-> <<AssistantMsg>>, Summary |-> "", Created |-> -1, Updated |-> 0]

\* The file that holds content of the bytes of the snapshot of session.
FileOf(session, content, mode) ==
    [content |-> content, data |-> session, json |-> MarshalIndent(session),
     synced |-> TRUE, mode |-> mode]

Dirs ==
    LET choices ==
            [{SessionPath(KeyA)} ->
                {NoFile, FileOf(SessA, "full", "0644"), FileOf(SessA, "partial", "0644"),
                 FileOf(SessA, "full", "0000")}]
            \X [{SessionPath(KeyB)} ->
                {NoFile, FileOf(SessB, "full", "0644"), FileOf(SessB, "empty", "0644")}]
            \X [{TmpName} ->
                {NoFile, FileOf(SessBLater, "full", "0600"),
                 FileOf(SessBLater, "partial", "0600")}]
        Entry(c, n) == IF n = SessionPath(KeyA) THEN c[1][n]
                       ELSE IF n = SessionPath(KeyB) THEN c[2][n] ELSE c[3][n]
    IN  {[n \in {m \in {SessionPath(KeyA), SessionPath(KeyB), TmpName} :
                    Entry(c, m) # NoFile} |-> Entry(c, n)] : c \in choices}

LoadInputs ==
    [name : {"Save"}, key : {KeyA, KeyB}]
    \cup [name : {"AddFullMessage"}, key : {KeyA}, msg : {UserMsg}]
    \cup [name : {"SetSummary"}, key : {KeyA}, summary : SummaryTexts]

LoadInit ==
    /\ Fresh
    /\ sessions = << >>
    /\ pc = [t \in Threads |-> IF t = "g1" THEN "new" ELSE "idle"]
    /\ messageStore = "nil"
    /\ storage = "sessions"
    /\ files \in Dirs
    /\ points = <<>>
    /\ Configured

LoadCall(t) ==
    /\ calls < MaxLoadCalls
    /\ \/ \E o \in LoadInputs : Invoke(t, o)
       \/ Exit(t)

LoadStep(t) ==
    \/ NewSessionManagerWithConfig(t)
    \/ Lock(t)
    \/ RLock(t)
    \/ AddFullMessage(t)
    \/ SetSummary(t)
    \/ Save(t)
    \/ SaveSnapshot(t)
    \/ SaveCopy(t)
    \/ CreateTemp(t)
    \/ Write(t)
    \/ Chmod(t)
    \/ Sync(t)
    \/ Close(t)
    \/ Rename(t)
    \/ Cleanup(t)

LoadNext == LoadCall("g1") \/ LoadStep("g1")

LoadSpec == LoadInit /\ [][LoadNext]_vars

(***************************************************************************)
(* HistSpec: one caller reads, replaces, truncates and extends histories,  *)
(* keeps the slices it got from GetHistory and passed to SetHistory, and   *)
(* writes to them.                                                         *)
(***************************************************************************)
\* Number of operations invoked under HistSpec.
MaxHistCalls == 3

\* Length of the longest history a session starts with under HistSpec.
MaxHistory == 3

\* The session of KeyA after n messages were appended to it, the i-th at
\* time i - 1 - MaxHistory.
Appended(n) ==
    [Key |-> KeyA,
     Messages |-> [i \in 1..n |->
                     [(IF i % 2 = 1 THEN UserMsg ELSE AssistantMsg)
                        EXCEPT !.id = i - 1 - MaxHistory]],
     Summary |-> "",
     Created |-> -MaxHistory,
     Updated |-> IF n = 0 THEN -MaxHistory ELSE n - 1 - MaxHistory]

HistKeepLasts == {-1, 0, 1, 2}

HistInputs ==
    [name : {"AddFullMessage"}, key : {KeyA}, msg : {UserMsg}]
    \cup [name : {"TruncateHistory"}, key : {KeyA}, keepLast : HistKeepLasts]
    \cup [name : {"TruncateHistory"}, key : {KeyB}, keepLast : {1}]
    \cup [name : {"GetHistory"}, key : {KeyA, KeyB}]

HistInit ==
    /\ Fresh
    /\ pc = [t \in Threads |-> "idle"]
    /\ files = << >>
    /\ messageStore = "nil"
    /\ storage = ""
    /\ points = <<>>
    /\ \/ sessions = << >>
       \/ \E n \in 0..MaxHistory : sessions = [k \in {KeyA} |-> Appended(n)]
    /\ Configured

\* The caller calls an operation; to SetHistory it passes the slice it holds.
HistCall(t) ==
    /\ calls < MaxHistCalls
    /\ \/ \E o \in HistInputs : Invoke(t, o)
       \/ \E k \in {KeyA, KeyB} :
            Invoke(t, [name |-> "SetHistory", key |-> k, history |-> held[t].elems])

\* The caller keeps the slice GetHistory returned.
Keep(t) ==
    /\ pc[t] = "idle"
    /\ ret[t].kind = "history"
    /\ held' = [held EXCEPT ![t] = [elems |-> ret[t].history, shares |-> ret[t].shares]]
    /\ ret' = [ret EXCEPT ![t] = NoRet]
    /\ UNCHANGED <<sessions, mu, messageStore, envVars, storeMu, pointCounter, points, clock,
                   pc, op, idx, point, trace, calls, results, batch, fsVars>>

\* The caller overwrites an element of the slice it holds.  The write is a
\* write to the backing array: a session whose Messages share the array has
\* that element overwritten as well.
CallerWrite(t) ==
    /\ pc[t] = "idle"
    /\ \E i \in 1..Len(held[t].elems) :
        /\ held[t].elems[i] # SystemMsg
        /\ held' = [held EXCEPT ![t].elems[i] = SystemMsg]
        /\ LET k == held[t].shares IN
            IF k \in DOMAIN sessions /\ i <= Len(sessions[k].Messages)
            THEN sessions' = [sessions EXCEPT ![k].Messages[i] = SystemMsg]
            ELSE UNCHANGED sessions
    /\ UNCHANGED <<mu, messageStore, envVars, storeMu, pointCounter, points, clock,
                   pc, op, idx, point, ret, trace, calls, results, batch, fsVars>>

HistStep(t) ==
    \/ Lock(t)
    \/ RLock(t)
    \/ AddFullMessage(t)
    \/ GetHistory(t)
    \/ TruncateHistory(t)
    \/ SetHistory(t)
    \/ Keep(t)
    \/ CallerWrite(t)

HistNext == HistCall("g1") \/ HistStep("g1")

HistSpec == HistInit /\ [][HistNext]_vars

(***************************************************************************)
(* The methods of the MessageStore, called by goroutines directly.  The    *)
(* collection is the sequence points; a point of another writer may be in  *)
(* it from the start.                                                      *)
(***************************************************************************)
\* The result of a search method: the messages (or payloads) and the error.
Found(messages, err) == [kind |-> "messages", messages |-> messages, err |-> err]

\* What a method returns when the store is not enabled.
Disabled(name) ==
    IF name \in {"SearchSimilarMessages", "SearchSimilarMessagesWithPayload"}
    THEN Found(<<>>, "nil")
    ELSE Error("")

\* Where a method goes on when the store is enabled.
Section(name) ==
    IF name = "StoreMessage" THEN "store"
    ELSE IF name = "StoreMessages" THEN "batch"
    ELSE IF name = "DeleteSessionMessages" THEN "delete"
    ELSE "search"

\* The methods without their test of s.enabled.
StoreEnterNoCheck(t) ==
    /\ pc[t] = "enter"
    /\ pc' = [pc EXCEPT ![t] = Section(op[t].name)]
    /\ UNCHANGED <<op, idx, point, ret, trace, results, batch>>
    /\ UNCHANGED <<sessions, mu, messageStore, envVars, storeMu, pointCounter, points, clock,
                   calls, held, fsVars>>

\* if !s.enabled { return ... }, the first statement of every method.
StoreEnter(t) ==
    /\ pc[t] = "enter"
    /\ IF ~StoreEnabled
       THEN StoreReturn(t, Disabled(op[t].name))
       ELSE /\ pc' = [pc EXCEPT ![t] = Section(op[t].name)]
            /\ UNCHANGED <<op, idx, point, ret, trace, results, batch>>
    /\ UNCHANGED <<sessions, mu, messageStore, envVars, storeMu, pointCounter, points, clock,
                   calls, held, fsVars>>

\* The texts StoreMessages asks the embeddings for.
Texts(messages) == [i \in 1..Len(messages) |-> messages[i].Message.Content]

\* StoreMessages: s.mu.Lock(), then the request for the embeddings is sent,
\* unless there is no credential or no text.
BatchLock(t) ==
    /\ pc[t] = "batch"
    /\ CanLock(storeMu)
    /\ storeMu' = Locked(storeMu, t)
    /\ pc' = [pc EXCEPT ![t] = "batchEmbed"]
    /\ trace' = [trace EXCEPT ![t].net =
                    IF Len(op[t].messages) = 0 THEN @ ELSE @ + EmbeddingRequests]
    /\ UNCHANGED <<sessions, mu, messageStore, envVars, pointCounter, points, clock,
                   op, idx, point, ret, calls, localVars, fsVars>>

\* The payload of the point of one StoredMessage.
BatchPayload(m) ==
    [session_key |-> m.SessionKey, role |-> m.Message.Role,
     content |-> m.Message.Content, timestamp |-> m.Timestamp,
     message_index |-> m.Index, mid |-> 0, aidx |-> -1]

\* The vectors GenerateEmbeddingsBatch returns for a 200 response it can
\* decode: the Embedding of every item of Data, in the order of Data.
Responses(texts) ==
    IF provider = "conforming"
    THEN {[i \in 1..Len(texts) |-> Embedding(texts[i])]}
    ELSE UNION {[1..k -> {Embedding(texts[i]) : i \in 1..Len(texts)}] :
                    k \in 0..(Len(texts) + 1)}

\* The points with the identifiers given in the reverse order.
BatchPointsReversed(messages, vectors, counter) ==
    [i \in 1..Len(messages) |->
        [ID |-> counter + Len(messages) + 1 - i,
         Vector |-> vectors[i],
         Payload |-> BatchPayload(messages[i]),
         Map |-> structToMap(BatchPayload(messages[i]))]]

\* The loop of StoreMessages over the messages, the counter being counter
\* before it: the i-th point has the i-th next identifier, the i-th vector
\* and the payload of the i-th message.
BatchPoints(messages, vectors, counter) ==
    [i \in 1..Len(messages) |->
        [ID |-> counter + i,
         Vector |-> vectors[i],
         Payload |-> BatchPayload(messages[i]),
         Map |-> structToMap(BatchPayload(messages[i]))]]

\* GenerateEmbeddingsBatch returns.  It fails without a credential, and
\* when its request fails (no request is sent for no text): StoreMessages
\* returns the error.  Otherwise StoreMessages builds one point per
\* message, each with the next value of the counter and with vectors[i]:
\* with fewer vectors than messages the index is out of range and the
\* goroutine panics after it has advanced the counter, its deferred
\* s.mu.Unlock() running; with the points built it sends the upsert, and
\* UpsertPoints returns nil at once for no point.
BatchEmbeddingDone(t) ==
    /\ pc[t] = "batchEmbed"
    /\ LET messages == op[t].messages
           n == Len(messages)
       IN
        \/ /\ apiKey = "" \/ n > 0
           /\ storeMu' = Unlocked(storeMu)
           /\ StoreReturn(t, Error("embedding"))
           /\ UNCHANGED pointCounter
        \/ /\ apiKey # ""
           /\ \E vectors \in (IF n = 0 THEN {<<>>} ELSE Responses(Texts(messages))) :
                IF Len(vectors) < n
                THEN /\ pointCounter' = pointCounter + Len(vectors) + 1
                     /\ storeMu' = Unlocked(storeMu)
                     /\ pc' = [pc EXCEPT ![t] = "panicked"]
                     /\ ret' = [ret EXCEPT ![t] = [kind |-> "panic"]]
                     /\ UNCHANGED <<op, idx, point, trace, results, batch>>
                ELSE IF n = 0
                THEN /\ storeMu' = Unlocked(storeMu)
                     /\ StoreReturn(t, Error(""))
                     /\ UNCHANGED pointCounter
                ELSE /\ pointCounter' = pointCounter + n
                     /\ batch' = [batch EXCEPT ![t] =
                                     BatchPoints(messages, vectors, pointCounter)]
                     /\ pc' = [pc EXCEPT ![t] = "batchUpsert"]
                     /\ trace' = [trace EXCEPT ![t].net = @ + 1]
                     /\ UNCHANGED <<storeMu, ret, op, idx, point, results>>
    /\ UNCHANGED <<sessions, mu, messageStore, envVars, points, clock, calls, held, fsVars>>

\* UpsertPoints returns: the points are in the collection, or the request failed.
BatchUpsertDone(t) ==
    /\ pc[t] = "batchUpsert"
    /\ storeMu' = Unlocked(storeMu)
    /\ \/ /\ points' = UpsertPoints(points, batch[t])
          /\ StoreReturn(t, Error(""))
       \/ /\ UNCHANGED points
          /\ StoreReturn(t, Error("upsert"))
    /\ UNCHANGED <<sessions, mu, messageStore, envVars, pointCounter, clock, calls, held, fsVars>>

\* The search methods: s.mu.RLock(), then the request for the embedding of
\* the query is sent.
SearchLock(t) ==
    /\ pc[t] = "search"
    /\ CanRLock(storeMu)
    /\ storeMu' = RLocked(storeMu, t)
    /\ pc' = [pc EXCEPT ![t] = "searchEmbed"]
    /\ trace' = [trace EXCEPT ![t].net = @ + EmbeddingRequests]
    /\ UNCHANGED <<sessions, mu, messageStore, envVars, pointCounter, points, clock,
                   op, idx, point, ret, calls, localVars, fsVars>>

\* GenerateEmbedding returns: on failure the search returns the error, on
\* success the search request is sent.
SearchEmbeddingDone(t) ==
    /\ pc[t] = "searchEmbed"
    /\ \/ /\ storeMu' = RUnlocked(storeMu, t)
          /\ StoreReturn(t, Found(<<>>, "embedding"))
       \/ /\ apiKey # ""
          /\ pc' = [pc EXCEPT ![t] = "searchQuery"]
          /\ trace' = [trace EXCEPT ![t].net = @ + 1]
          /\ UNCHANGED <<storeMu, ret, op, idx, point, results, batch>>
    /\ UNCHANGED <<sessions, mu, messageStore, envVars, pointCounter, points, clock,
                   calls, held, fsVars>>

\* QdrantClient.Search without the filter.
SearchRequestNoFilter(sessionKey, limit) ==
    [limit |-> limit, with_payload |-> TRUE]

\* The request of QdrantClient.Search: a filter on the payload's session_key
\* is attached when sessionKey is not empty.
SearchRequest(sessionKey, limit) ==
    IF sessionKey # <<>>
    THEN [limit |-> limit, with_payload |-> TRUE,
          filter |-> [key |-> "session_key", match |-> Str(sessionKey)]]
    ELSE [limit |-> limit, with_payload |-> TRUE]

\* The points of the collection a request can match.
Candidates(request) ==
    {i \in 1..Len(points) :
        "filter" \in DOMAIN request =>
            /\ request.filter.key \in DOMAIN points[i].Map
            /\ points[i].Map[request.filter.key] = request.filter.match}

\* The answers of the vector database to a search request: the best matching
\* points in the order of their scores, at most limit of them, each with its
\* payload.  Scores are the database's business: every order can be the answer.
Answers(request) ==
    LET cand == Candidates(request)
        n == IF Cardinality(cand) < request.limit THEN Cardinality(cand) ELSE request.limit
    IN  {[i \in 1..n |-> [ID |-> points[order[i]].ID, Payload |-> points[order[i]].Map]] :
            order \in {o \in [1..n -> cand] : \A a, b \in 1..n : a # b => o[a] # o[b]}}

\* Whether encoding/json can put the payload into a MessagePayload: a field
\* that is there must have the type of the struct's field.
Decodes(payload) ==
    /\ \A f \in {"session_key", "role", "content", "timestamp"} :
          f \in DOMAIN payload => payload[f].type = "string"
    /\ "message_index" \in DOMAIN payload => payload.message_index.type = "number"

\* The value of a string field, "" where the payload does not have it.
Field(payload, f) == IF f \in DOMAIN payload THEN payload[f].val ELSE ""

\* payloadToMessage(payload), where it succeeds.
payloadToMessage(payload) ==
    Msg(Field(payload, "role"), Field(payload, "content"), FALSE)

\* payloadToMessagePayload(payload), where it succeeds.
payloadToMessagePayload(payload) ==
    [session_key |-> IF "session_key" \in DOMAIN payload
                     THEN payload.session_key.val ELSE <<>>,
     role |-> Field(payload, "role"),
     content |-> Field(payload, "content"),
     timestamp |-> IF "timestamp" \in DOMAIN payload THEN payload.timestamp.val ELSE 0,
     message_index |-> IF "message_index" \in DOMAIN payload
                       THEN payload.message_index.val ELSE 0]

\* The loop over the results: a result whose payload cannot be converted is
\* skipped.
RECURSIVE Convert(_, _)
Convert(hits, name) ==
    IF hits = <<>> THEN <<>>
    ELSE LET payload == Head(hits).Payload IN
        IF ~Decodes(payload) THEN Convert(Tail(hits), name)
        ELSE <<IF name = "SearchSimilarMessages"
               THEN payloadToMessage(payload)
               ELSE payloadToMessagePayload(payload)>> \o Convert(Tail(hits), name)

\* SearchDone with a failed search answered as an empty result.
SearchDoneSwallow(t) ==
    /\ pc[t] = "searchQuery"
    /\ \/ /\ storeMu' = RUnlocked(storeMu, t)
          /\ StoreReturn(t, Found(<<>>, "nil"))
       \/ /\ \E answer \in Answers(SearchRequest(op[t].key, op[t].limit)) :
                results' = [results EXCEPT ![t] = answer]
          /\ pc' = [pc EXCEPT ![t] = "convert"]
          /\ UNCHANGED <<storeMu, ret, op, idx, point, trace, batch>>
    /\ UNCHANGED <<sessions, mu, messageStore, envVars, pointCounter, points, clock,
                   calls, held, fsVars>>

\* QdrantClient.Search returns: on failure the search returns the error, on
\* success results holds the answer.
SearchDone(t) ==
    /\ pc[t] = "searchQuery"
    /\ \/ /\ storeMu' = RUnlocked(storeMu, t)
          /\ StoreReturn(t, Found(<<>>, "search"))
       \/ /\ \E answer \in Answers(SearchRequest(op[t].key, op[t].limit)) :
                results' = [results EXCEPT ![t] = answer]
          /\ pc' = [pc EXCEPT ![t] = "convert"]
          /\ UNCHANGED <<storeMu, ret, op, idx, point, trace, batch>>
    /\ UNCHANGED <<sessions, mu, messageStore, envVars, pointCounter, points, clock,
                   calls, held, fsVars>>

\* The conversion of the results, the deferred s.mu.RUnlock() and the return.
SearchReturn(t) ==
    /\ pc[t] = "convert"
    /\ storeMu' = RUnlocked(storeMu, t)
    /\ StoreReturn(t, Found(Convert(results[t], op[t].name), "nil"))
    /\ UNCHANGED <<sessions, mu, messageStore, envVars, pointCounter, points, clock,
                   calls, held, fsVars>>

\* DeleteSessionMessages: s.mu.Lock(), then the delete request is sent.
DeleteLock(t) ==
    /\ pc[t] = "delete"
    /\ CanLock(storeMu)
    /\ storeMu' = Locked(storeMu, t)
    /\ pc' = [pc EXCEPT ![t] = "deleting"]
    /\ trace' = [trace EXCEPT ![t].net = @ + 1]
    /\ UNCHANGED <<sessions, mu, messageStore, envVars, pointCounter, points, clock,
                   op, idx, point, ret, calls, localVars, fsVars>>

\* DeleteBySessionKey returns: the points whose payload has the session key
\* are gone, or the request failed.
DeleteDone(t) ==
    /\ pc[t] = "deleting"
    /\ storeMu' = Unlocked(storeMu)
    /\ \/ /\ points' = SelectSeq(points, LAMBDA p :
                          ~("session_key" \in DOMAIN p.Map
                              /\ p.Map.session_key = Str(op[t].key)))
          /\ StoreReturn(t, Error(""))
       \/ /\ UNCHANGED points
          /\ StoreReturn(t, Error("delete"))
    /\ UNCHANGED <<sessions, mu, messageStore, envVars, pointCounter, clock, calls, held, fsVars>>

(***************************************************************************)
(* StoreSpec: two goroutines call the methods of one MessageStore, which   *)
(* is enabled or not.                                                      *)
(***************************************************************************)
\* Total number of methods called under StoreSpec.
MaxStoreCalls == 3

\* A point written by someone else: its payload has a number for the role
\* and no session key.
ForeignPoint ==
    [ID |-> 0, Map |-> [role |-> Num(7), content |-> Str("x")]]

\* StoredMessage
Stored(sessionKey, msg, index) ==
    [SessionKey |-> sessionKey, Message |-> msg, Timestamp |-> 0, Index |-> index]

StoreInputs ==
    [name : {"StoreMessage"}, key : {KeyA, KeyB}, msg : {UserMsg}, index : {0}]
    \cup [name : {"StoreMessages"},
          messages : {<<Stored(KeyA, AssistantMsg, 1), Stored(KeyB, AssistantMsg, 1)>>}]
    \cup [name : {"SearchSimilarMessages"}, key : {<<>>, KeyA}, limit : {1, 2}]
    \cup [name : {"SearchSimilarMessagesWithPayload"}, key : {KeyA}, limit : {2}]
    \cup [name : {"DeleteSessionMessages"}, key : {KeyA}]

\* NewMessageStore, enabled or not, over a collection that is empty or holds
\* a point already.
StoreInit ==
    /\ Fresh
    /\ sessions = << >>
    /\ pc = [t \in Threads |-> "idle"]
    /\ files = << >>
    /\ messageStore \in {"disabled", "enabled"}
    /\ storage = ""
    /\ points \in {<<>>, <<ForeignPoint>>}
    /\ Configured

StoreCall(t) ==
    /\ calls < MaxStoreCalls
    /\ pc[t] = "idle"
    /\ \E o \in StoreInputs :
        /\ op' = [op EXCEPT ![t] = o]
        /\ idx' = [idx EXCEPT ![t] = IF o.name = "StoreMessage" THEN o.index ELSE 0]
    /\ pc' = [pc EXCEPT ![t] = "enter"]
    /\ calls' = calls + 1
    /\ ret' = [ret EXCEPT ![t] = NoRet]
    /\ UNCHANGED <<sessions, mu, messageStore, envVars, storeMu, pointCounter, points, clock,
                   point, trace, localVars, fsVars>>

StoreStep(t) ==
    \/ StoreEnter(t)
    \/ StoreMessageLock(t)
    \/ EmbeddingDone(t)
    \/ UpsertDone(t)
    \/ BatchLock(t)
    \/ BatchEmbeddingDone(t)
    \/ BatchUpsertDone(t)
    \/ SearchLock(t)
    \/ SearchEmbeddingDone(t)
    \/ SearchDone(t)
    \/ SearchReturn(t)
    \/ DeleteLock(t)
    \/ DeleteDone(t)

StoreNext == \E t \in Threads : StoreCall(t) \/ StoreStep(t)

StoreSpec == StoreInit /\ [][StoreNext]_vars

(***************************************************************************)
(* NewMessageStore, called by NewSessionManagerWithConfig when             *)
(* Qdrant.Enabled is set: the clients are made and CreateCollection asks   *)
(* the database for the collection and creates it when it is not there.    *)
(* When CreateCollection fails NewMessageStore returns nil and an error,   *)
(* and sm.messageStore is nil.                                             *)
(***************************************************************************)
\* NewMessageStore with a counter that goes on where the run before
\* stopped.
NewMessageStoreReturnPersisted(t, store) ==
    /\ messageStore' = store
    /\ pointCounter' = previous.counter
    /\ pc' = [pc EXCEPT ![t] = "idle"]

\* NewMessageStore returns to NewSessionManagerWithConfig, which returns:
\* the store, if there is one, is a new struct with pointCounter 0.
NewMessageStoreReturn(t, store) ==
    /\ messageStore' = store
    /\ pointCounter' = 0
    /\ pc' = [pc EXCEPT ![t] = "idle"]

\* CollectionExists returns: 200, 404 (CreateCollection sends the PUT), or a
\* failure of the request or another status.
CollectionExists(t) ==
    /\ pc[t] = "probe"
    /\ \/ /\ collection = "exists"
          /\ NewMessageStoreReturn(t, "enabled")
       \/ /\ collection = "absent"
          /\ pc' = [pc EXCEPT ![t] = "create"]
          /\ UNCHANGED <<messageStore, pointCounter>>
       \/ NewMessageStoreReturn(t, "nil")
    /\ UNCHANGED <<sessions, mu, storeMu, points, clock, collection, storageCfg, provider,
                   previous, parked,
                   op, idx, point, ret, trace, calls, localVars, fsVars>>

\* CreateCollection with a failed PUT taken for a success.
CreateCollectionIgnoreError(t) ==
    /\ pc[t] = "create"
    /\ \/ /\ collection' = "exists"
          /\ NewMessageStoreReturn(t, "enabled")
       \/ /\ UNCHANGED collection
          /\ NewMessageStoreReturn(t, "enabled")
    /\ UNCHANGED <<sessions, mu, storeMu, points, clock, storageCfg, provider,
                   previous, parked,
                   op, idx, point, ret, trace, calls, localVars, fsVars>>

\* The PUT of CreateCollection returns: 200 and the collection is there, or
\* a failure.
CreateCollection(t) ==
    /\ pc[t] = "create"
    /\ \/ /\ collection' = "exists"
          /\ NewMessageStoreReturn(t, "enabled")
       \/ /\ UNCHANGED collection
          /\ NewMessageStoreReturn(t, "nil")
    /\ UNCHANGED <<sessions, mu, storeMu, points, clock, storageCfg, provider,
                   previous, parked,
                   op, idx, point, ret, trace, calls, localVars, fsVars>>

\* SessionManager.SearchSimilarMessages: an empty result when there is no
\* enabled message store, the message store's search otherwise.
SearchSimilarMessages(t) ==
    /\ pc[t] = "smSearch"
    /\ IF messageStore = "nil" \/ ~StoreEnabled
       THEN StoreReturn(t, Found(<<>>, "nil"))
       ELSE /\ pc' = [pc EXCEPT ![t] = "enter"]
            /\ UNCHANGED <<op, idx, point, ret, trace, results, batch>>
    /\ UNCHANGED <<sessions, mu, messageStore, envVars, storeMu, pointCounter, points, clock,
                   calls, held, fsVars>>

(***************************************************************************)
(* ConfigSpec: a SessionManager is constructed with a configuration that   *)
(* has the vector store on or off and a credential for the embeddings or   *)
(* none, against a database that has the collection or not and answers or  *)
(* fails; then a goroutine adds messages and searches.                     *)
(***************************************************************************)
\* Number of operations invoked under ConfigSpec.
MaxConfigCalls == 3

ConfigInputs ==
    [name : {"AddFullMessage"}, key : {KeyA, KeyB}, msg : {UserMsg, ToolResultMsg}]
    \cup [name : {"SearchSimilarMessages"}, key : {KeyA}, limit : {2}]

ConfigInit ==
    /\ Fresh
    /\ sessions = << >>
    /\ pc = [t \in Threads |-> IF t = "g1" THEN "new" ELSE "idle"]
    /\ files = << >>
    /\ points = <<>>
    /\ storage = ""
    /\ messageStore = "nil"
    /\ storageCfg \in {StorageConfig(enabled, key) : enabled \in BOOLEAN, key \in {"", "key"}}
    /\ collection \in {"absent", "exists"}
    /\ provider = "conforming"
    /\ OneInstance

ConfigCall(t) ==
    /\ calls < MaxConfigCalls
    /\ \E o \in ConfigInputs :
        IF o.name = "AddFullMessage"
        THEN Invoke(t, o)
        ELSE /\ pc[t] = "idle"
             /\ op' = [op EXCEPT ![t] = o]
             /\ pc' = [pc EXCEPT ![t] = "smSearch"]
             /\ calls' = calls + 1
             /\ ret' = [ret EXCEPT ![t] = NoRet]
             /\ UNCHANGED <<sessions, mu, messageStore, envVars, storeMu, pointCounter,
                            points, clock, idx, point, trace, localVars, fsVars>>

ConfigStep(t) ==
    \/ NewSessionManagerWithConfig(t)
    \/ CollectionExists(t)
    \/ CreateCollection(t)
    \/ Lock(t)
    \/ AddFullMessage(t)
    \/ ReadIndex(t)
    \/ StoreMessageLock(t)
    \/ EmbeddingDone(t)
    \/ UpsertDone(t)
    \/ Relock(t)
    \/ AddFullMessageReturn(t)
    \/ SearchSimilarMessages(t)
    \/ StoreEnter(t)
    \/ SearchLock(t)
    \/ SearchEmbeddingDone(t)
    \/ SearchDone(t)
    \/ SearchReturn(t)

ConfigNext == ConfigCall("g1") \/ ConfigStep("g1")

ConfigSpec == ConfigInit /\ [][ConfigNext]_vars

(***************************************************************************)
(* QdrantSearchTool: the arguments of Execute are JSON values (typed, as   *)
(* Str and Num are), the limit goes through Go's conversions to int.       *)
(***************************************************************************)
\* The largest int.  Go's int has 64 bits; here it has fewer, and the
\* numbers the arguments are drawn from lie on both sides of its range.
MaxInt == 63
MinInt == -MaxInt - 1

\* An argument that is not there.
Absent == [type |-> "absent"]
\* A Go int, a float64 (as the number of its halves), a bool.
IntVal(n) == [type |-> "int", val |-> n]
Float(halves) == [type |-> "float64", halves |-> halves]
Bool(b) == [type |-> "bool", val |-> b]

Digits == <<"0", "1", "2", "3", "4", "5", "6", "7", "8", "9">>
IsDigit(c) == \E d \in 1..10 : Digits[d] = c
Digit(c) == (CHOOSE d \in 1..10 : Digits[d] = c) - 1

\* The number a sequence of digits stands for.
RECURSIVE Decimal(_)
Decimal(s) ==
    IF s = <<>> THEN 0
    ELSE 10 * Decimal(SubSeq(s, 1, Len(s) - 1)) + Digit(s[Len(s)])

\* strconv.Atoi(s): an optional sign and decimal digits; a syntax error for
\* anything else, a range error for a number that is not an int.
Atoi(s) ==
    LET signed == s # <<>> /\ Head(s) \in {"+", "-"}
        body == IF signed THEN Tail(s) ELSE s
        n == IF signed /\ Head(s) = "-" THEN -Decimal(body) ELSE Decimal(body)
    IN  IF body = <<>> \/ \E i \in 1..Len(body) : ~IsDigit(body[i])
        THEN [err |-> "syntax"]
        ELSE IF n > MaxInt \/ n < MinInt THEN [err |-> "range"]
        ELSE [err |-> "nil", val |-> n]

\* int(v) for a float64 v: the fraction is dropped; when the result is not
\* an int the conversion succeeds with a value that depends on the
\* implementation (amd64 gives the smallest int, arm64 the nearest one).
ToInt(v) ==
    LET n == IF v.halves >= 0 THEN v.halves \div 2 ELSE -((-v.halves) \div 2)
    IN  IF n > MaxInt THEN {MinInt, MaxInt}
        ELSE IF n < MinInt THEN {MinInt}
        ELSE {n}

\* Execute's limit before it is capped: 5 unless args["limit"] is an int, a
\* float64 or a string that Atoi converts.
Limit(limitArg) ==
    IF limitArg.type = "int" THEN {limitArg.val}
    ELSE IF limitArg.type = "float64" THEN ToInt(limitArg)
    ELSE IF limitArg.type = "string" /\ Atoi(limitArg.val).err = "nil"
         THEN {Atoi(limitArg.val).val}
    ELSE {5}

\* if limit > 20 { limit = 20 }; if limit < 1 { limit = 1 }
Cap(limit) == IF limit > 20 THEN 20 ELSE IF limit < 1 THEN 1 ELSE limit

\* The instant the clock calls 0, as the digit a timestamp text has for it.
Epoch == 5

\* time.Parse(time.RFC3339, s) for the texts of instants: a digit for the
\* local time and "Z" or a signed digit for the zone's offset; a text
\* without a zone is an error.
ParseTime(s) ==
    IF Len(s) = 2 /\ IsDigit(s[1]) /\ s[2] = "Z"
    THEN [err |-> "nil", val |-> Digit(s[1]) - Epoch]
    ELSE IF Len(s) = 3 /\ IsDigit(s[1]) /\ s[2] \in {"+", "-"} /\ IsDigit(s[3])
    THEN [err |-> "nil",
          val |-> IF s[2] = "+" THEN Digit(s[1]) - Digit(s[3]) - Epoch
                  ELSE Digit(s[1]) + Digit(s[3]) - Epoch]
    ELSE [err |-> "parse"]

\* strings.ToLower, for the texts of roles.
ToLower(s) ==
    IF s \in {"USER", "User"} THEN "user"
    ELSE IF s = "Assistant" THEN "assistant"
    ELSE s

\* strings.EqualFold
EqualFold(s, t) == ToLower(s) = ToLower(t)

\* v, ok := object[field].(string)
IsString(object, field) ==
    field \in DOMAIN object /\ object[field].type = "string"

\* matchesFilters with a message at the instant of a bound left out.
matchesFiltersExclusive(msg, filters) ==
    /\ IsString(filters, "role") => EqualFold(msg.role, filters.role.val)
    /\ (IsString(filters, "timestamp_from")
            /\ ParseTime(filters.timestamp_from.val).err = "nil")
         => msg.timestamp > ParseTime(filters.timestamp_from.val).val
    /\ (IsString(filters, "timestamp_to")
            /\ ParseTime(filters.timestamp_to.val).err = "nil")
         => msg.timestamp < ParseTime(filters.timestamp_to.val).val

\* matchesFilters(msg, filters)
matchesFilters(msg, filters) ==
    /\ IsString(filters, "role") => EqualFold(msg.role, filters.role.val)
    /\ (IsString(filters, "timestamp_from")
            /\ ParseTime(filters.timestamp_from.val).err = "nil")
         => ~(msg.timestamp < ParseTime(filters.timestamp_from.val).val)
    /\ (IsString(filters, "timestamp_to")
            /\ ParseTime(filters.timestamp_to.val).err = "nil")
         => ~(msg.timestamp > ParseTime(filters.timestamp_to.val).val)

\* applyFilters(messages, filters); a nil map is the empty map here.
applyFilters(messages, filters) ==
    IF DOMAIN filters = {} THEN messages
    ELSE SelectSeq(messages, LAMBDA msg : matchesFilters(msg, filters))

\* A text for the model without messages in it.
Text(s) == [text |-> s, found |-> 0, entries |-> <<>>]

\* formatResults(messages): one entry per message, the session left out
\* when it is empty.
formatResults(messages) ==
    [text |-> "Found relevant message(s):",
     found |-> Len(messages),
     entries |-> [i \in 1..Len(messages) |->
                    IF messages[i].session_key # <<>>
                    THEN [Role |-> messages[i].role, Time |-> messages[i].timestamp,
                          Content |-> messages[i].content,
                          Session |-> messages[i].session_key]
                    ELSE [Role |-> messages[i].role, Time |-> messages[i].timestamp,
                          Content |-> messages[i].content]]]

ToolResult(forLLM, isError) == [kind |-> "tool", ForLLM |-> forLLM, IsError |-> isError]

\* Execute returns result.
ToolReturn(t, result) ==
    /\ pc' = [pc EXCEPT ![t] = "idle"]
    /\ ret' = [ret EXCEPT ![t] = result]
    /\ op' = [op EXCEPT ![t] = NoOp]

\* Execute(ctx, args), up to its call of SearchSimilarMessagesWithPayload:
\* the tests of the store and of query_text, the limit, the filters and the
\* session key of the search.
Execute(t) ==
    /\ pc[t] = "execute"
    /\ LET args == op[t].args
           filters == IF "filters" \in DOMAIN args /\ args.filters.type = "object"
                      THEN args.filters.val ELSE << >>
           searchSessionKey ==
               IF IsString(filters, "session_key") /\ filters.session_key.val # <<>>
               THEN filters.session_key.val ELSE op[t].sessionKey
       IN  IF messageStore = "nil" \/ ~StoreEnabled
           THEN ToolReturn(t, ToolResult(Text("not configured"), TRUE))
           ELSE IF ~IsString(args, "query_text") \/ args.query_text.val = ""
           THEN ToolReturn(t, ToolResult(Text("query_text is required"), TRUE))
           ELSE /\ \E limit \in Limit(IF "limit" \in DOMAIN args THEN args.limit ELSE Absent) :
                     op' = [op EXCEPT ![t] =
                              [name |-> "Execute", args |-> args,
                               sessionKey |-> op[t].sessionKey, key |-> searchSessionKey,
                               limit |-> Cap(limit), filters |-> filters]]
                /\ pc' = [pc EXCEPT ![t] = "enter"]
                /\ UNCHANGED ret
    /\ UNCHANGED <<sessions, mu, messageStore, envVars, storeMu, pointCounter, points, clock,
                   idx, point, trace, calls, localVars, fsVars>>

\* Execute, from the return of the search: an error result for an error,
\* the filters, and the formatted messages.
ExecuteReturn(t) ==
    /\ pc[t] = "searched"
    /\ IF ret[t].err # "nil"
       THEN ToolReturn(t, ToolResult(Text(ret[t].err), TRUE))
       ELSE LET filteredMessages == applyFilters(ret[t].messages, op[t].filters) IN
            IF Len(filteredMessages) = 0
            THEN ToolReturn(t, ToolResult(Text("No relevant messages found in memory."), FALSE))
            ELSE ToolReturn(t, ToolResult(formatResults(filteredMessages), FALSE))
    /\ UNCHANGED <<sessions, mu, messageStore, envVars, storeMu, pointCounter, points, clock,
                   idx, point, trace, calls, localVars, fsVars>>

\* The steps of Execute and of the search inside it.
ToolStep(t) ==
    \/ Execute(t)
    \/ StoreEnter(t)
    \/ SearchLock(t)
    \/ SearchEmbeddingDone(t)
    \/ SearchDone(t)
    \/ SearchReturn(t)
    \/ ExecuteReturn(t)

\* A goroutine calls Execute of a tool whose session key is sessionKey.
ToolCall(t, sessionKey, args) ==
    /\ pc[t] = "idle"
    /\ op' = [op EXCEPT ![t] = [name |-> "Execute", args |-> args, sessionKey |-> sessionKey]]
    /\ pc' = [pc EXCEPT ![t] = "execute"]
    /\ calls' = calls + 1
    /\ ret' = [ret EXCEPT ![t] = NoRet]
    /\ UNCHANGED <<sessions, mu, messageStore, envVars, storeMu, pointCounter, points, clock,
                   idx, point, trace, localVars, fsVars>>

\* A point stored by an earlier process.
OldPoint(id, sessionKey, role, content, timestamp) ==
    LET payload == [session_key |-> sessionKey, role |-> role, content |-> content,
                    timestamp |-> timestamp, message_index |-> id - 1,
                    mid |-> 0, aidx |-> -1]
    IN  [ID |-> id, Payload |-> payload, Map |-> structToMap(payload)]

\* The collection the tool searches.
OldPoints ==
    <<OldPoint(1, KeyA, "user", "q", -3),
      OldPoint(2, KeyA, "assistant", "answer", -2),
      OldPoint(3, KeyB, "user", "q", -1)>>

\* A process with a message store, enabled or not, over that collection.
ToolInit ==
    /\ Fresh
    /\ sessions = << >>
    /\ pc = [t \in Threads |-> "idle"]
    /\ files = << >>
    /\ storage = ""
    /\ messageStore \in {"disabled", "enabled"}
    /\ points = OldPoints
    /\ Configured

(***************************************************************************)
(* LimitSpec: Execute is called with every kind of limit.                  *)
(***************************************************************************)
\* Number of calls of Execute under LimitSpec.
MaxLimitCalls == 2

LimitArgs ==
    {Absent, Bool(TRUE)}
    \cup {IntVal(n) : n \in {MinInt, -1, 0, 1, 5, 20, 21, MaxInt}}
    \cup {Float(h) : h \in {-2 * MaxInt - 4, -1, 1, 2, 15, 40, 41, 42, 2 * MaxInt + 2}}
    \cup {Str(s) : s \in {<<"7">>, <<"2", "1">>, <<"0">>, <<"-", "3">>, <<"+", "7">>,
                          <<"7", ".", "5">>, <<"x">>, <<>>, <<"9", "9">>}}

LimitInputs ==
    {[query_text |-> Str("q")]}
    \cup {[query_text |-> Str("q"), limit |-> l] : l \in LimitArgs \ {Absent}}
    \cup {[query_text |-> Str(""), limit |-> IntVal(5)], [limit |-> IntVal(5)]}

LimitCall(t) ==
    /\ calls < MaxLimitCalls
    /\ \E args \in LimitInputs : ToolCall(t, KeyA, args)

LimitNext == LimitCall("g1") \/ ToolStep("g1")

LimitSpec == ToolInit /\ [][LimitNext]_vars

(***************************************************************************)
(* FilterSpec: Execute is called with every kind of filters.               *)
(***************************************************************************)
\* Number of calls of Execute under FilterSpec.
MaxFilterCalls == 1

\* A JSON object with the fields that are given.
Object(fields) ==
    [type |-> "object",
     val |-> [f \in {g \in DOMAIN fields : fields[g] # Absent} |-> fields[f]]]

FilterArgs ==
    {Object([role |-> r, timestamp_from |-> from, timestamp_to |-> to, session_key |-> k]) :
        r \in {Absent, Str("user"), Str("USER"), Str("assistant"), Str(""), Num(7)},
        from \in {Absent, Str(<<"3", "Z">>), Str(<<"5", "+", "2">>), Str(<<"3">>), Num(3)},
        to \in {Absent, Str(<<"3", "Z">>), Str(<<"2", "-", "1">>), Str(<<"x">>)},
        k \in {Absent, Str(KeyB), Str(<<>>)}}
    \cup {Absent, Str("user")}

FilterInputs ==
    {IF filters = Absent THEN [query_text |-> Str("q")]
     ELSE [query_text |-> Str("q"), filters |-> filters] : filters \in FilterArgs}

FilterCall(t) ==
    /\ calls < MaxFilterCalls
    /\ \E args \in FilterInputs, sessionKey \in {<<>>, KeyA} : ToolCall(t, sessionKey, args)

FilterNext == FilterCall("g1") \/ ToolStep("g1")

FilterSpec == ToolInit /\ [][FilterNext]_vars

(***************************************************************************)
(* SanitizeSpec: sanitizeFilename is applied to every key of up to         *)
(* MaxKeyLen characters, the separator, its replacement and letters.       *)
(***************************************************************************)
MaxKeyLen == 5

KeyChars == {"a", "b", "c", ":", "_"}

RECURSIVE KeysOfLen(_)
KeysOfLen(n) ==
    IF n = 0 THEN {<<>>}
    ELSE {Append(k, c) : k \in KeysOfLen(n - 1), c \in KeyChars}

SanitizeKeys == UNION {KeysOfLen(n) : n \in 0..MaxKeyLen}

\* One key in a behaviour.
SanitizeCall(t) ==
    /\ calls = 0
    /\ pc[t] = "idle"
    /\ \E key \in SanitizeKeys : op' = [op EXCEPT ![t] = [name |-> "sanitizeFilename", key |-> key]]
    /\ pc' = [pc EXCEPT ![t] = "sanitize"]
    /\ calls' = calls + 1
    /\ ret' = [ret EXCEPT ![t] = NoRet]
    /\ UNCHANGED <<sessions, mu, messageStore, envVars, storeMu, pointCounter, points, clock,
                   idx, point, trace, localVars, fsVars>>

\* sanitizeFilename(key) returns.
SanitizeReturn(t) ==
    /\ pc[t] = "sanitize"
    /\ ret' = [ret EXCEPT ![t] = [kind |-> "filename", key |-> op[t].key,
                                  filename |-> sanitizeFilename(op[t].key)]]
    /\ pc' = [pc EXCEPT ![t] = "idle"]
    /\ op' = [op EXCEPT ![t] = NoOp]
    /\ UNCHANGED <<sessions, mu, messageStore, envVars, storeMu, pointCounter, points, clock,
                   idx, point, trace, calls, localVars, fsVars>>

SanitizeInit ==
    /\ Start
    /\ messageStore = "nil"
    /\ storage = ""
    /\ Configured

SanitizeNext == SanitizeCall("g1") \/ SanitizeReturn("g1")

SanitizeSpec == SanitizeInit /\ [][SanitizeNext]_vars

(***************************************************************************)
(* The session tool (SessionTool) and IsoSpec: two goroutines change, cut  *)
(* and clear the sessions of two keys, those sessions loaded from the      *)
(* directory or made by the first message.  No message store.              *)
(***************************************************************************)
\* Number of operations invoked under IsoSpec.
MaxIsoCalls == 3

\* A goroutine calls Execute of the session tool whose session key is
\* sessionKey, with args["action"] = action.
SessionToolCall(t, sessionKey, action) ==
    /\ pc[t] = "idle"
    /\ op' = [op EXCEPT ![t] = [name |-> "SessionTool", action |-> action,
                                sessionKey |-> sessionKey]]
    /\ pc' = [pc EXCEPT ![t] = "session"]
    /\ calls' = calls + 1
    /\ ret' = [ret EXCEPT ![t] = NoRet]
    /\ UNCHANGED <<sessions, mu, messageStore, envVars, storeMu, pointCounter, points, clock,
                   idx, point, trace, localVars, fsVars>>

\* SessionTool.Execute up to the call it makes on the session manager:
\* clearSession calls TruncateHistory(t.sessionKey, 0), sessionStats calls
\* GetHistory(t.sessionKey).
SessionToolExecute(t) ==
    /\ pc[t] = "session"
    /\ LET action == op[t].action
           sessionKey == op[t].sessionKey
       IN
        IF sessionKey = <<>>
        THEN ToolReturn(t, ToolResult(Text("No current session"), TRUE))
        ELSE IF action = "clear"
        THEN /\ pc' = [pc EXCEPT ![t] = "lock"]
             /\ op' = [op EXCEPT ![t] = [name |-> "TruncateHistory", key |-> sessionKey,
                                         keepLast |-> 0, action |-> action]]
             /\ UNCHANGED ret
        ELSE IF action = "stats"
        THEN /\ pc' = [pc EXCEPT ![t] = "rlock"]
             /\ op' = [op EXCEPT ![t] = [name |-> "GetHistory", key |-> sessionKey,
                                         action |-> action]]
             /\ UNCHANGED ret
        ELSE ToolReturn(t, ToolResult(Text("Unknown action"), TRUE))
    /\ UNCHANGED <<sessions, mu, messageStore, envVars, storeMu, pointCounter, points, clock,
                   idx, point, trace, calls, localVars, fsVars>>

\* clearSession and sessionStats after the call: the result of the tool.
SessionToolReturn(t) ==
    /\ pc[t] = "tool"
    /\ IF op[t].action = "clear"
       THEN ToolReturn(t, ToolResult(Text("Session cleared"), FALSE))
       ELSE ToolReturn(t, ToolResult([text |-> "Session Stats",
                                      found |-> Len(ret[t].history),
                                      entries |-> <<>>], FALSE))
    /\ UNCHANGED <<sessions, mu, messageStore, envVars, storeMu, pointCounter, points, clock,
                   idx, point, trace, calls, localVars, fsVars>>

IsoKeys == {KeyA, KeyB}

IsoInputs ==
    [name : {"AddFullMessage"}, key : IsoKeys, msg : {UserMsg}]
    \cup [name : {"SetSummary"}, key : IsoKeys, summary : SummaryTexts]
    \cup [name : {"TruncateHistory"}, key : IsoKeys, keepLast : KeepLasts]
    \cup [name : {"SetHistory"}, key : IsoKeys, history : Histories]

\* The directories an earlier process leaves when it ends in good order.
IsoDirs ==
    {d \in Dirs : \A n \in DOMAIN d : n # TmpName /\ d[n].content = "full" /\ d[n].mode = "0644"}

\* NewSessionManagerWithConfig has loaded the sessions of the directory.
IsoInit ==
    /\ Fresh
    /\ pc = [t \in Threads |-> "idle"]
    /\ messageStore = "nil"
    /\ storage = "sessions"
    /\ files \in IsoDirs
    /\ sessions = loadSessions(files)
    /\ points = <<>>
    /\ Configured

IsoCall(t) ==
    /\ calls < MaxIsoCalls
    /\ \/ \E o \in IsoInputs : Invoke(t, o)
       \/ \E sessionKey \in IsoKeys \cup {<<>>}, action \in {"clear", "stats", "reset"} :
            SessionToolCall(t, sessionKey, action)

IsoStep(t) ==
    \/ Lock(t)
    \/ RLock(t)
    \/ AddFullMessage(t)
    \/ GetHistory(t)
    \/ SetSummary(t)
    \/ TruncateHistory(t)
    \/ SetHistory(t)
    \/ SessionToolExecute(t)
    \/ SessionToolReturn(t)

IsoNext == \E t \in Threads : IsoCall(t) \/ IsoStep(t)

IsoSpec == IsoInit /\ [][IsoNext]_vars

(***************************************************************************)
(* SnapSpec: a goroutine saves the session of KeyA while the other one     *)
(* appends to it, cuts it, replaces it and summarises it.                  *)
(***************************************************************************)
\* Number of operations invoked under SnapSpec.
MaxSnapCalls == 3

SnapInputs ==
    [name : {"Save"}, key : {KeyA}]
    \cup [name : {"AddFullMessage"}, key : {KeyA}, msg : {UserMsg}]
    \cup [name : {"SetSummary"}, key : {KeyA}, summary : SummaryTexts]
    \cup [name : {"TruncateHistory"}, key : {KeyA}, keepLast : KeepLasts]
    \cup [name : {"SetHistory"}, key : {KeyA}, history : Histories]

\* NewSessionManagerWithConfig has loaded the session of KeyA, if the
\* directory held it.
SnapInit ==
    /\ Fresh
    /\ pc = [t \in Threads |-> "idle"]
    /\ messageStore = "nil"
    /\ storage = "sessions"
    /\ files \in {d \in IsoDirs : SessionPath(KeyB) \notin DOMAIN d}
    /\ sessions = loadSessions(files)
    /\ points = <<>>
    /\ Configured

SnapCall(t) ==
    /\ calls < MaxSnapCalls
    /\ \E o \in SnapInputs : Invoke(t, o)

SnapStep(t) ==
    \/ Lock(t)
    \/ RLock(t)
    \/ AddFullMessage(t)
    \/ SetSummary(t)
    \/ TruncateHistory(t)
    \/ SetHistory(t)
    \/ Save(t)
    \/ SaveSnapshot(t)
    \/ SaveCopy(t)
    \/ CreateTemp(t)
    \/ Write(t)
    \/ Chmod(t)
    \/ Sync(t)
    \/ Close(t)
    \/ Rename(t)
    \/ Cleanup(t)

SnapNext == \E t \in Threads : SnapCall(t) \/ SnapStep(t)

SnapSpec == SnapInit /\ [][SnapNext]_vars

(***************************************************************************)
(* RefSpec: a caller of GetOrCreate keeps the *Session it returned, which  *)
(* is the value under the key in sm.sessions, reads it and assigns to its  *)
(* exported fields, while the other goroutine calls the store.             *)
(***************************************************************************)
\* Number of operations invoked under RefSpec.
MaxRefCalls == 3

RefInputs ==
    [name : {"GetOrCreate"}, key : {KeyA, KeyB}]
    \cup [name : {"AddFullMessage"}, key : {KeyA}, msg : {UserMsg}]
    \cup [name : {"SetSummary"}, key : {KeyA}, summary : SummaryTexts]
    \cup [name : {"GetHistory", "GetSummary"}, key : {KeyA}]

\* The caller reads session.Messages of the *Session it holds: the slice
\* it gets is the session's own.
SessionRead(t) ==
    /\ pc[t] = "idle"
    /\ ret[t].kind = "session"
    /\ held[t].shares # ret[t].key
    /\ held' = [held EXCEPT ![t] = [elems |-> sessions[ret[t].key].Messages,
                                    shares |-> ret[t].key]]
    /\ UNCHANGED <<sessions, mu, messageStore, envVars, storeMu, pointCounter, points, clock,
                   pc, op, idx, point, ret, trace, calls, results, batch, fsVars>>

\* The caller assigns to session.Summary, or appends to session.Messages,
\* of the *Session it holds.
SessionWrite(t) ==
    /\ pc[t] = "idle"
    /\ ret[t].kind = "session"
    /\ LET key == ret[t].key IN
        \/ /\ sessions[key].Summary # "caller"
           /\ sessions' = [sessions EXCEPT ![key].Summary = "caller"]
        \/ /\ Len(sessions[key].Messages) < MaxRefCalls
           /\ sessions' = [sessions EXCEPT ![key].Messages = Append(@, SystemMsg)]
    /\ UNCHANGED <<mu, messageStore, envVars, storeMu, pointCounter, points, clock,
                   pc, op, idx, point, ret, trace, calls, localVars, fsVars>>

RefInit ==
    /\ Start
    /\ messageStore = "nil"
    /\ storage = ""
    /\ Configured

RefCall(t) ==
    /\ calls < MaxRefCalls
    /\ \E o \in RefInputs : Invoke(t, o)

RefStep(t) ==
    \/ Lock(t)
    \/ RLock(t)
    \/ GetOrCreate(t)
    \/ AddFullMessage(t)
    \/ SetSummary(t)
    \/ GetHistory(t)
    \/ GetSummary(t)
    \/ SessionRead(t)
    \/ SessionWrite(t)

RefNext == \E t \in Threads : RefCall(t) \/ RefStep(t)

RefSpec == RefInit /\ [][RefNext]_vars

(***************************************************************************)
(* BatchSpec and ResponseSpec: two goroutines call StoreMessages with      *)
(* lists of no, one and two messages, and StoreMessage, on one enabled     *)
(* MessageStore.  Under BatchSpec the embeddings endpoint answers as its   *)
(* API says, with or without a credential configured; under ResponseSpec   *)
(* a 200 response holds any number of vectors in any order.                *)
(***************************************************************************)
\* Total number of methods called under BatchSpec and ResponseSpec.
MaxBatchCalls == 3

BatchInputs ==
    [name : {"StoreMessages"},
     messages : {<<>>,
                 <<Stored(KeyB, AssistantMsg, 1)>>,
                 <<Stored(KeyA, UserMsg, 0), Stored(KeyB, AssistantMsg, 1)>>}]
    \cup [name : {"StoreMessage"}, key : {KeyA}, msg : {UserMsg}, index : {0}]

BatchInit ==
    /\ Fresh
    /\ sessions = << >>
    /\ pc = [t \in Threads |-> "idle"]
    /\ files = << >>
    /\ messageStore = "enabled"
    /\ storage = ""
    /\ points = <<>>
    /\ storageCfg \in {StorageConfig(TRUE, key) : key \in {"", "key"}}
    /\ collection = "exists"
    /\ provider = "conforming"
    /\ OneInstance

ResponseInit ==
    /\ Fresh
    /\ sessions = << >>
    /\ pc = [t \in Threads |-> "idle"]
    /\ files = << >>
    /\ messageStore = "enabled"
    /\ storage = ""
    /\ points = <<>>
    /\ storageCfg = StorageConfig(TRUE, "key")
    /\ collection = "exists"
    /\ provider = "arbitrary"
    /\ OneInstance

BatchCall(t) ==
    /\ calls < MaxBatchCalls
    /\ pc[t] = "idle"
    /\ \E o \in BatchInputs :
        /\ op' = [op EXCEPT ![t] = o]
        /\ idx' = [idx EXCEPT ![t] = IF o.name = "StoreMessage" THEN o.index ELSE 0]
    /\ pc' = [pc EXCEPT ![t] = "enter"]
    /\ calls' = calls + 1
    /\ ret' = [ret EXCEPT ![t] = NoRet]
    /\ UNCHANGED <<sessions, mu, messageStore, envVars, storeMu, pointCounter, points, clock,
                   point, trace, localVars, fsVars>>

BatchStep(t) ==
    \/ StoreEnter(t)
    \/ StoreMessageLock(t)
    \/ EmbeddingDone(t)
    \/ UpsertDone(t)
    \/ BatchLock(t)
    \/ BatchEmbeddingDone(t)
    \/ BatchUpsertDone(t)

BatchNext == \E t \in Threads : BatchCall(t) \/ BatchStep(t)

BatchSpec == BatchInit /\ [][BatchNext]_vars

ResponseSpec == ResponseInit /\ [][BatchNext]_vars

(***************************************************************************)
(* Restarts with the semantic store enabled: one goroutine constructs the  *)
(* SessionManager (and with it a new MessageStore), appends messages that  *)
(* are forwarded to the store, and the process exits and starts again on   *)
(* the same collection.                                                    *)
(***************************************************************************)
MaxRestartCalls == 4

RestartInputs ==
    [name : {"AddFullMessage"}, key : {KeyA}, msg : {UserMsg, ToolResultMsg}]

RestartInit ==
    /\ Fresh
    /\ sessions = << >>
    /\ pc = [t \in Threads |-> IF t = "g1" THEN "new" ELSE "idle"]
    /\ files = << >>
    /\ points = <<>>
    /\ storage = ""
    /\ messageStore = "nil"
    /\ storageCfg = StorageConfig(TRUE, "key")
    /\ collection \in {"absent", "exists"}
    /\ provider = "conforming"
    /\ OneInstance

RestartCall(t) ==
    /\ calls < MaxRestartCalls
    /\ \/ \E o \in RestartInputs : Invoke(t, o)
       \/ Exit(t)

RestartStep(t) ==
    \/ NewSessionManagerWithConfig(t)
    \/ CollectionExists(t)
    \/ CreateCollection(t)
    \/ Lock(t)
    \/ AddFullMessage(t)
    \/ ReadIndex(t)
    \/ StoreMessageLock(t)
    \/ EmbeddingDone(t)
    \/ UpsertDone(t)
    \/ Relock(t)
    \/ AddFullMessageReturn(t)

RestartNext == RestartCall("g1") \/ RestartStep("g1")

RestartSpec == RestartInit /\ [][RestartNext]_vars

(***************************************************************************)
(* Two agent instances in one process.  NewAgentInstance gives each its    *)
(* own SessionManager, which builds its own MessageStore from the same     *)
(* cfg.Storage, so both write to the same collection.  Goroutine g1 works  *)
(* for the instance "main", g2 for "second".  The variables sessions, mu,  *)
(* messageStore, storeMu and pointCounter hold the fields of the instance  *)
(* whose goroutine steps; parked holds those of the other one, and Switch  *)
(* exchanges them.  The collection (points) belongs to neither.            *)
(***************************************************************************)
MaxAgentsCalls == 3

Agent(t) == IF t = "g1" THEN "main" ELSE "second"

Instance(agent) ==
    [agent |-> agent, sessions |-> sessions, mu |-> mu, messageStore |-> messageStore,
     storeMu |-> storeMu, pointCounter |-> pointCounter]

Switch ==
    /\ parked # NoInstance
    /\ parked' = Instance(IF parked.agent = "main" THEN "second" ELSE "main")
    /\ sessions' = parked.sessions
    /\ mu' = parked.mu
    /\ messageStore' = parked.messageStore
    /\ storeMu' = parked.storeMu
    /\ pointCounter' = parked.pointCounter
    /\ UNCHANGED <<storageCfg, collection, provider, previous, points, clock, pc, op, idx,
                   point, ret, trace, calls, localVars, fsVars>>

AgentsInputs ==
    [name : {"AddFullMessage"}, key : {KeyA}, msg : {UserMsg, ToolResultMsg}]

AgentsInit ==
    /\ Fresh
    /\ sessions = << >>
    /\ pc = [t \in Threads |-> "new"]
    /\ files = << >>
    /\ points = <<>>
    /\ storage = ""
    /\ messageStore = "nil"
    /\ storageCfg = StorageConfig(TRUE, "key")
    /\ collection = "exists"
    /\ provider = "conforming"
    /\ previous = NoRun
    /\ parked = [agent |-> "second", sessions |-> << >>, mu |-> Free, messageStore |-> "nil",
                 storeMu |-> Free, pointCounter |-> 0]

AgentsCall(t) ==
    /\ calls < MaxAgentsCalls
    /\ \E o \in AgentsInputs : Invoke(t, o)

AgentsStep(t) ==
    \/ NewSessionManagerWithConfig(t)
    \/ CollectionExists(t)
    \/ Lock(t)
    \/ AddFullMessage(t)
    \/ ReadIndex(t)
    \/ StoreMessageLock(t)
    \/ EmbeddingDone(t)
    \/ UpsertDone(t)
    \/ Relock(t)
    \/ AddFullMessageReturn(t)

AgentsNext ==
    \/ Switch
    \/ \E t \in Threads : Agent(t) # parked.agent /\ (AgentsCall(t) \/ AgentsStep(t))

AgentsSpec == AgentsInit /\ [][AgentsNext]_vars

(***************************************************************************)
(* Concurrent GetOrCreate and AddFullMessage on two keys, with the store   *)
(* absent or enabled, and no other operation.                              *)
(***************************************************************************)
MaxAppendCalls == 3

AppendInputs ==
    [name : {"AddFullMessage"}, key : {KeyA}, msg : {UserMsg, ToolResultMsg}]
    \cup [name : {"AddFullMessage"}, key : {KeyB}, msg : {UserMsg}]
    \cup [name : {"GetOrCreate"}, key : {KeyA, KeyB}]

AppendCall(t) ==
    /\ calls < MaxAppendCalls
    /\ \E o \in AppendInputs : Invoke(t, o)

AppendStep(t) ==
    \/ Lock(t)
    \/ GetOrCreate(t)
    \/ AddFullMessage(t)
    \/ ReadIndex(t)
    \/ StoreMessageLock(t)
    \/ EmbeddingDone(t)
    \/ UpsertDone(t)
    \/ Relock(t)
    \/ AddFullMessageReturn(t)

AppendNext == \E t \in Threads : AppendCall(t) \/ AppendStep(t)

AppendSpec == Init /\ [][AppendNext]_vars

(***************************************************************************)
(* Sessions under keys that differ only in ':' and '_', saved to one       *)
(* directory by one goroutine, and a fresh SessionManager constructed on   *)
(* that directory afterwards.                                              *)
(***************************************************************************)
MaxKeysCalls == 5

KeyUnderscore == <<"a", "_", "1">>

KeysInputs ==
    [name : {"Save"}, key : {KeyA, KeyUnderscore, KeyB}]
    \cup [name : {"AddFullMessage"}, key : {KeyA}, msg : {UserMsg}]
    \cup [name : {"AddFullMessage"}, key : {KeyUnderscore, KeyB}, msg : {AssistantMsg}]

KeysInit ==
    /\ Start
    /\ messageStore = "nil"
    /\ storage = "sessions"
    /\ Configured

KeysCall(t) ==
    /\ calls < MaxKeysCalls
    /\ \/ \E o \in KeysInputs : Invoke(t, o)
       \/ Exit(t)

KeysStep(t) ==
    \/ NewSessionManagerWithConfig(t)
    \/ Lock(t)
    \/ RLock(t)
    \/ AddFullMessage(t)
    \/ Save(t)
    \/ SaveSnapshot(t)
    \/ SaveCopy(t)
    \/ CreateTemp(t)
    \/ Write(t)
    \/ Chmod(t)
    \/ Sync(t)
    \/ Close(t)
    \/ Rename(t)
    \/ Cleanup(t)

KeysNext == KeysCall("g1") \/ KeysStep("g1")

KeysSpec == KeysInit /\ [][KeysNext]_vars

(***************************************************************************)
(* The session store and the semantic index together: one goroutine        *)
(* appends to a session with the store enabled, clears and rewrites the    *)
(* session, searches and deletes the session's points, and the process     *)
(* exits and starts again on the same collection.                          *)
(***************************************************************************)
MaxIndexCalls == 4

IndexInputs ==
    [name : {"AddFullMessage"}, key : {KeyA}, msg : {UserMsg}]
    \cup [name : {"SetSummary"}, key : {KeyA}, summary : {"s1"}]
    \cup [name : {"TruncateHistory"}, key : {KeyA}, keepLast : {0, 1}]
    \cup [name : {"SetHistory"}, key : {KeyA}, history : {<<>>}]
    \cup [name : {"SearchSimilarMessages"}, key : {KeyA}, limit : {2}]
    \cup [name : {"DeleteSessionMessages"}, key : {KeyA}]

IndexInit ==
    /\ Start
    /\ messageStore = "enabled"
    /\ storage = ""
    /\ Configured

IndexCall(t) ==
    /\ calls < MaxIndexCalls
    /\ \/ \E o \in IndexInputs :
            IF o.name \in {"SearchSimilarMessages", "DeleteSessionMessages"}
            THEN /\ pc[t] = "idle"
                 /\ op' = [op EXCEPT ![t] = o]
                 /\ pc' = [pc EXCEPT ![t] = IF o.name = "SearchSimilarMessages"
                                            THEN "smSearch" ELSE "enter"]
                 /\ calls' = calls + 1
                 /\ ret' = [ret EXCEPT ![t] = NoRet]
                 /\ UNCHANGED <<sessions, mu, messageStore, envVars, storeMu, pointCounter,
                                points, clock, idx, point, trace, localVars, fsVars>>
            ELSE Invoke(t, o)
       \/ SessionToolCall(t, KeyA, "clear")
       \/ Exit(t)

IndexStep(t) ==
    \/ NewSessionManagerWithConfig(t)
    \/ CollectionExists(t)
    \/ Lock(t)
    \/ AddFullMessage(t)
    \/ ReadIndex(t)
    \/ StoreMessageLock(t)
    \/ EmbeddingDone(t)
    \/ UpsertDone(t)
    \/ Relock(t)
    \/ AddFullMessageReturn(t)
    \/ SetSummary(t)
    \/ TruncateHistory(t)
    \/ SetHistory(t)
    \/ SessionToolExecute(t)
    \/ SessionToolReturn(t)
    \/ SearchSimilarMessages(t)
    \/ StoreEnter(t)
    \/ SearchLock(t)
    \/ SearchEmbeddingDone(t)
    \/ SearchDone(t)
    \/ SearchReturn(t)
    \/ DeleteLock(t)
    \/ DeleteDone(t)

IndexNext == IndexCall("g1") \/ IndexStep("g1")

IndexSpec == IndexInit /\ [][IndexNext]_vars

(***************************************************************************)
(* Termination.  Two goroutines call operations of the SessionManager and  *)
(* of the MessageStore; the scheduler is fair to every goroutine that can  *)
(* take a step, and every remote call returns (the steps EmbeddingDone,    *)
(* UpsertDone, SearchDone, DeleteDone and their like are the returns, with *)
(* success or failure; the HTTP clients have timeouts).                    *)
(***************************************************************************)
MaxLiveCalls == 3

LiveInputs ==
    [name : {"AddFullMessage"}, key : {KeyA}, msg : {UserMsg, ToolResultMsg}]
    \cup [name : {"GetHistory"}, key : {KeyA}]
    \cup [name : {"SearchSimilarMessages"}, key : {KeyA}, limit : {2}]
    \cup [name : {"StoreMessages"}, messages : {<<Stored(KeyB, AssistantMsg, 1)>>}]
    \cup [name : {"DeleteSessionMessages"}, key : {KeyA}]

LiveCall(t) ==
    /\ calls < MaxLiveCalls
    /\ \E o \in LiveInputs :
        IF o.name \in {"SearchSimilarMessages", "StoreMessages", "DeleteSessionMessages"}
        THEN /\ pc[t] = "idle"
             /\ op' = [op EXCEPT ![t] = o]
             /\ pc' = [pc EXCEPT ![t] = IF o.name = "SearchSimilarMessages"
                                        THEN "smSearch" ELSE "enter"]
             /\ calls' = calls + 1
             /\ ret' = [ret EXCEPT ![t] = NoRet]
             /\ UNCHANGED <<sessions, mu, messageStore, envVars, storeMu, pointCounter,
                            points, clock, idx, point, trace, localVars, fsVars>>
        ELSE Invoke(t, o)

LiveStep(t) ==
    \/ Lock(t)
    \/ RLock(t)
    \/ AddFullMessage(t)
    \/ ReadIndex(t)
    \/ StoreMessageLock(t)
    \/ EmbeddingDone(t)
    \/ UpsertDone(t)
    \/ Relock(t)
    \/ AddFullMessageReturn(t)
    \/ GetHistory(t)
    \/ SearchSimilarMessages(t)
    \/ StoreEnter(t)
    \/ SearchLock(t)
    \/ SearchEmbeddingDone(t)
    \/ SearchDone(t)
    \/ SearchReturn(t)
    \/ BatchLock(t)
    \/ BatchEmbeddingDone(t)
    \/ BatchUpsertDone(t)
    \/ DeleteLock(t)
    \/ DeleteDone(t)

LiveNext == \E t \in Threads : LiveCall(t) \/ LiveStep(t)

LiveSpec ==
    /\ Init
    /\ [][LiveNext]_vars
    /\ \A t \in Threads : WF_vars(LiveStep(t))

(***************************************************************************)
(* Properties.  Helper predicates of the properties.                       *)
(***************************************************************************)
\* The goroutine's embedding or upsert request is in flight.
InFlight(t) == pc[t] \in {"embed", "upsert"}

\* The goroutine is between AddFullMessage's Unlock and its deferred Unlock.
Forwarding(t) == pc[t] \in {"index", "store", "embed", "upsert", "relock", "relocked"}

\* t took a step of its operation.
Stepped(t) == pc'[t] # pc[t]

\* t2 cannot take its next step because t1 holds the lock it needs.
WaitsFor(t2, t1) ==
    \/ pc[t2] \in {"lock", "relock"} /\ (mu.w = t1 \/ t1 \in mu.r)
    \/ pc[t2] = "rlock" /\ mu.w = t1
    \/ pc[t2] = "store" /\ (storeMu.w = t1 \/ t1 \in storeMu.r)

\* Roles and contents of a history, without the identities.
Plain(history) ==
    [i \in 1..Len(history) |-> [history[i] EXCEPT !.id = 0]]

C2_ToolCallNeverForwarded ==
    /\ \A t \in Threads :
        (op[t].name = "AddFullMessage" /\ op[t].msg.ToolCalls) => ~trace[t].forwarded
    /\ (/\ KeyA \in DOMAIN sessions
        /\ Plain(sessions[KeyA].Messages) =
              <<UserMsg, ToolCallMsg, ToolResultMsg, AssistantMsg>>
        /\ pc["g1"] = "idle")
       => Len(points) <= 2

\* C3: once AddFullMessage has called the message store, no step of it
\* changes any session, whatever the store returns; it returns nothing to
\* its caller, and when it returns the appended message is the last of the
\* session's history.
C3_StoreFailureSwallowed ==
    [][\A t \in Threads :
        (Forwarding(t) /\ Stepped(t)) =>
            /\ sessions' = sessions
            /\ pc'[t] = "idle" =>
                /\ ret'[t].kind = "void"
                /\ LET h == sessions'[op[t].key].Messages IN
                     Len(h) > 0 /\ h[Len(h)].id = trace[t].mid]_vars

\* C3 witness: the embedding failed, AddFullMessage is about to return and
\* the message is in the history.
C3_Witness ==
    \E t \in Threads :
        /\ pc[t] = "relocked"
        /\ ret[t].storeErr = "embedding"
        /\ Len(sessions[op[t].key].Messages) = 2
        /\ sessions[op[t].key].Messages[2].id = trace[t].mid

\* C4: a goroutine whose embedding or upsert request is in flight does not
\* hold the session lock, neither exclusively nor shared; nor does it from
\* the Unlock before the call to the deferred Lock after it.
C4_NoSessionLockDuringNetwork ==
    \A t \in Threads :
        (InFlight(t) \/ pc[t] \in {"index", "store", "relock"}) =>
            mu.w # t /\ t \notin mu.r

\* C4 witness: while the embedding request of one goroutine is in flight,
\* another goroutine holds the session lock for GetHistory on the same key.
C4_Witness ==
    \E t1, t2 \in Threads :
        /\ InFlight(t1)
        /\ pc[t2] = "rlocked"
        /\ op[t2].name = "GetHistory"
        /\ op[t2].key = op[t1].key

C7_IndexIsAppendIndex ==
    \A i \in 1..Len(points) :
        points[i].Payload.message_index = points[i].Payload.aidx

\* C8 (as claimed): of two points of one session, the one whose message was
\* appended first has the smaller index, and where both messages are in the
\* session's history, it comes first.
C8_AppendOrderIsIndexOrder ==
    \A i, j \in 1..Len(points) :
        LET p == points[i].Payload
            q == points[j].Payload
        IN  (p.session_key = q.session_key /\ p.mid < q.mid) =>
                /\ p.message_index < q.message_index
                /\ LET h == sessions[p.session_key].Messages IN
                    \A a, b \in 1..Len(h) :
                        (h[a].id = p.mid /\ h[b].id = q.mid) => a < b

\* C9: whatever step Save or the process is at, also after a crash, a file
\* under a session's final name holds the complete, flushed snapshot of a
\* session with that name; and a Save that is about to rename its temporary
\* file has written all of the snapshot to it and flushed it.
C9_FinalFileComplete ==
    /\ \A n \in DOMAIN files :
        /\ files[n].content = "full"
        /\ files[n].synced
        /\ n = SessionPath(files[n].data.Key)
    /\ \A t \in Threads :
        pc[t] = "rename" =>
            /\ tmp[t].content = "full"
            /\ tmp[t].synced
            /\ tmp[t].data = snapshot[t]

\* C9 witness: the process crashed with a snapshot under its final name and
\* with a temporary file of an unfinished Save that holds a part of its data.
C9_Witness ==
    /\ crashed
    /\ SessionPath(KeyA) \in DOMAIN files
    /\ \E t \in Threads : tmp[t] # NoFile /\ tmp[t].content = "partial"

DirectlyInside(name) ==
    /\ name \notin {<<>>, <<".">>, <<".", ".">>}
    /\ \A i \in 1..Len(name) : name[i] \notin {"/", "\\"}

\* C11 (as claimed): Save of a key whose sanitized file name is empty, ".",
\* "..", has a separator or leaves the directory returns an error and writes
\* nothing, whatever the configuration of the store.
C11_InvalidKeyAlwaysError ==
    [][\A t \in Threads :
        (pc[t] = "save" /\ Stepped(t) /\ op[t].key \in BadKeys) =>
            /\ pc'[t] = "idle"
            /\ ret'[t].err # "nil"
            /\ files' = files
            /\ tmp' = tmp]_vars

\* C11 (amended): with a storage directory, Save of such a key returns
\* ErrInvalid at once, whether or not the key has a session; without a
\* storage directory Save of any key returns nil at once.  In both cases it
\* writes nothing and changes no session.  Every file under a final name, and
\* every Save that got as far as creating its temporary file, has a name that
\* lies directly inside the storage directory.
C11_InvalidKeyRejected ==
    /\ [][\A t \in Threads :
            (pc[t] = "save" /\ Stepped(t)
                /\ (op[t].key \in BadKeys \/ storage = "")) =>
                /\ pc'[t] = "idle"
                /\ ret'[t].kind = "error"
                /\ ret'[t].err = (IF storage = "" THEN "nil" ELSE "ErrInvalid")
                /\ files' = files
                /\ tmp' = tmp
                /\ sessions' = sessions]_vars
    /\ [](/\ \A n \in DOMAIN files : DirectlyInside(n)
          /\ \A t \in Threads :
                pc[t] \in {"rlock", "rlocked", "create", "write", "chmod", "sync",
                           "close", "rename", "cleanup"} /\ op[t].name = "Save" =>
                    /\ storage # ""
                    /\ DirectlyInside(SessionPath(op[t].key))
                    /\ DirectlyInside(sanitizeFilename(op[t].key)))

\* C11 witness: with a storage directory, Save has returned ErrInvalid while
\* the only sessions are sessions under rejected keys, and nothing is in the
\* directory.
C11_Witness ==
    /\ storage # ""
    /\ pc["g1"] = "idle"
    /\ ret["g1"].kind = "error"
    /\ ret["g1"].err = "ErrInvalid"
    /\ DOMAIN sessions # {}
    /\ DOMAIN sessions \subseteq BadKeys
    /\ DOMAIN files = {}

\* C12: a Save that succeeds leaves under the key's file name the snapshot it
\* took of the session, which is the session as it is when Save returns where
\* nothing else runs; and a store made over the directory has, for every key
\* whose file is complete and readable, a session under that very key (not
\* under the sanitized name) with the saved roles and contents in the saved
\* order and with the saved summary.
C12_SaveLoadRoundTrip ==
    [][\A t \in Threads :
        /\ (pc[t] = "rename" /\ pc'[t] = "idle") =>
              LET n == SessionPath(op[t].key) IN
                /\ ret'[t].err = "nil"
                /\ n \in DOMAIN files'
                /\ files'[n].content = "full"
                /\ files'[n].data = sessions[op[t].key]
        /\ (pc[t] = "new" /\ pc'[t] = "idle") =>
              \A k \in {KeyA, KeyB} :
                LET n == SessionPath(k) IN
                  (/\ n \in DOMAIN files
                   /\ files[n].content = "full"
                   /\ files[n].mode # "0000"
                   /\ files[n].data.Key = k) =>
                      /\ k \in DOMAIN sessions'
                      /\ sessions'[k].Key = k
                      /\ Len(sessions'[k].Messages) = Len(files[n].data.Messages)
                      /\ Plain(sessions'[k].Messages) = Plain(files[n].data.Messages)
                      /\ sessions'[k].Summary = files[n].data.Summary]_vars

\* C12 witness: the session of the key with a colon was loaded, got one more
\* message and was saved, and after the end of the process it is back under
\* its key with all three messages and its summary.
C12_Witness ==
    /\ pc["g1"] = "idle"
    /\ calls = 3
    /\ KeyA \in DOMAIN sessions
    /\ Plain(sessions[KeyA].Messages) = <<UserMsg, ToolCallMsg, UserMsg>>
    /\ \A i \in 1..3 : sessions[KeyA].Messages[i].id = 0
    /\ sessions[KeyA].Summary = "s0"

\* A file of the directory that holds a complete, readable snapshot under a
\* name that ends in ".json".
ValidSnapshot(n) ==
    /\ Len(n) >= 5
    /\ LastN(n, 5) = <<".", "j", "s", "o", "n">>
    /\ files[n].content = "full"
    /\ files[n].mode # "0000"

\* C13: making a store over a directory always succeeds, and its sessions
\* are exactly the sessions of the complete, readable ".json" files, each
\* with the content of its own file: a file that cannot be parsed or read
\* and a temporary file give no session and change no other.
C13_LoadSkipsBadFiles ==
    [][\A t \in Threads :
        pc[t] = "new" =>
            /\ ENABLED NewSessionManagerWithConfig(t)
            /\ pc'[t] = "idle"
            /\ files' = files
            /\ DOMAIN sessions' =
                  {files[n].data.Key : n \in {m \in DOMAIN files : ValidSnapshot(m)}}
            /\ \A n \in DOMAIN files :
                  ValidSnapshot(n) =>
                      LET s == sessions'[files[n].data.Key]
                          d == files[n].data
                      IN  /\ Plain(s.Messages) = Plain(d.Messages)
                          /\ s.Summary = d.Summary
                          /\ s.Created = d.Created
                          /\ s.Updated = d.Updated]_vars

\* C13 witness: the store was made over a directory with a snapshot that
\* cannot be parsed, a valid snapshot and a complete temporary file of the
\* valid snapshot's session; only the valid snapshot gave a session.
C13_Witness ==
    /\ pc["g1"] = "idle"
    /\ calls = 0
    /\ DOMAIN files = {SessionPath(KeyA), SessionPath(KeyB), TmpName}
    /\ files[SessionPath(KeyA)].content = "partial"
    /\ files[TmpName].content = "full"
    /\ DOMAIN sessions = {KeyB}
    /\ sessions[KeyB].Messages = <<>>

\* s is a suffix of h: h without its first Len(h) - Len(s) elements.
IsSuffix(s, h) ==
    /\ Len(s) <= Len(h)
    /\ \A i \in 1..Len(s) : s[i] = h[Len(h) - Len(s) + i]

C15_GetOrCreateIdempotent ==
    /\ [][\A t \in Threads :
            (pc[t] = "locked" /\ op[t].name = "GetOrCreate" /\ Stepped(t)) =>
                LET k == op[t].key IN
                    /\ pc'[t] = "idle"
                    /\ ret'[t] = [kind |-> "session", key |-> k]
                    /\ k \in DOMAIN sessions'
                    /\ k \in DOMAIN sessions => sessions' = sessions
                    /\ k \notin DOMAIN sessions =>
                          /\ sessions'[k] = NewSession(k, clock', clock')
                          /\ clock' > clock
                          /\ DOMAIN sessions' = DOMAIN sessions \cup {k}
                          /\ \A j \in DOMAIN sessions : sessions'[j] = sessions[j]]_vars
    /\ [][\A k \in DOMAIN sessions :
            /\ k \in DOMAIN sessions'
            /\ sessions'[k].Created = sessions[k].Created]_vars
    /\ [](\A k \in DOMAIN sessions : sessions[k].Key = k)

\* C15 witness: a session that AddFullMessage made has one message; one
\* goroutine has got it from GetOrCreate and the other is inside GetOrCreate
\* for the same key.
C15_Witness ==
    \E t1, t2 \in Threads :
        /\ pc[t1] = "idle"
        /\ ret[t1] = [kind |-> "session", key |-> KeyA]
        /\ pc[t2] = "locked"
        /\ op[t2] = [name |-> "GetOrCreate", key |-> KeyA]
        /\ Len(sessions[KeyA].Messages) = 1
        /\ sessions[KeyA].Messages[1].Role = "user"

\* The methods of the MessageStore that search.
Searches == {"SearchSimilarMessages", "SearchSimilarMessagesWithPayload"}

\* C17: with the store not enabled, every method returns at its first step:
\* the storing and deleting methods return nil, the searching methods an
\* empty list and nil; the counter, the collection and the lock stay as they
\* are, and at no time is a goroutine past the first step, has a request been
\* issued or has the counter moved.
C17_DisabledIsNoOp ==
    /\ [][\A t \in Threads :
            (~StoreEnabled /\ pc[t] = "enter" /\ Stepped(t)) =>
                /\ pc'[t] = "idle"
                /\ ret'[t].err = "nil"
                /\ IF op[t].name \in Searches
                   THEN ret'[t].kind = "messages" /\ ret'[t].messages = <<>>
                   ELSE ret'[t].kind = "error"
                /\ pointCounter' = pointCounter
                /\ points' = points
                /\ storeMu' = storeMu]_vars
    /\ [](~StoreEnabled =>
            /\ pointCounter = 0
            /\ storeMu = Free
            /\ \A i \in 1..Len(points) : points[i] = ForeignPoint
            /\ \A t \in Threads :
                /\ pc[t] \in {"idle", "enter"}
                /\ trace[t].net = 0
                /\ ~trace[t].forwarded)

\* C17 witness: with the store not enabled, three methods were called; a
\* search has returned an empty list and a storing or deleting method nil.
C17_Witness ==
    /\ ~StoreEnabled
    /\ calls = 3
    /\ ret["g1"] = Found(<<>>, "nil")
    /\ ret["g2"] = Error("")
    /\ pc["g1"] = "idle"
    /\ pc["g2"] = "idle"

\* The points this store has built and sent or is about to send: those of
\* the collection that are its own, and those of the requests in flight.
Built(t) ==
    IF pc[t] = "upsert" THEN <<point[t]>>
    ELSE IF pc[t] = "batchUpsert" THEN batch[t]
    ELSE <<>>

Sent == SelectSeq(points, LAMBDA p : p # ForeignPoint) \o Built("g1") \o Built("g2")

\* C18: the counter never decreases; every point the store has built has an
\* ID between 1 and the counter, and no two of them have the same ID, whether
\* they came from StoreMessage or from StoreMessages and whichever goroutine
\* built them.
C18_PointIDsUnique ==
    /\ [][pointCounter' >= pointCounter]_vars
    /\ [](/\ \A i \in 1..Len(Sent) : Sent[i].ID \in 1..pointCounter
          /\ \A i, j \in 1..Len(Sent) : i # j => Sent[i].ID # Sent[j].ID)

\* C18 witness: a point of StoreMessage is in the collection, the two points
\* of a StoreMessages call of the other goroutine are in flight, and a third
\* call waits for the lock.
C18_Witness ==
    \E t1, t2 \in Threads :
        /\ Len(Sent) = 3
        /\ pc[t1] = "batchUpsert"
        /\ pc[t2] = "store"
        /\ \E i \in 1..Len(points) : points[i].ID = 1 /\ points[i].Payload.role = "user"

\* The goroutine is inside the section of a writing method, a searching method.
InWrite(t) == pc[t] \in {"embed", "upsert", "batchEmbed", "batchUpsert", "deleting"}
InSearch(t) == pc[t] \in {"searchEmbed", "searchQuery", "convert"}

\* C19: a goroutine inside StoreMessage, StoreMessages or
\* DeleteSessionMessages holds the store's lock exclusively from before its
\* first request to after its last, and no other goroutine is inside any
\* method's section then; a goroutine inside a search holds the lock shared.
C19_WritersExclusive ==
    /\ \A t \in Threads :
        /\ InWrite(t) => storeMu.w = t /\ storeMu.r = {}
        /\ InSearch(t) => t \in storeMu.r /\ storeMu.w = ""
    /\ \A t1, t2 \in Threads :
        (t1 # t2 /\ InWrite(t1)) => ~InWrite(t2) /\ ~InSearch(t2)

\* C19 witness: two searches are inside their sections at the same time
\* while the collection has a point.
C19_Witness ==
    /\ pc["g1"] = "searchQuery"
    /\ pc["g2"] = "searchEmbed"
    /\ storeMu.r = {"g1", "g2"}
    /\ \E i \in 1..Len(points) : points[i] # ForeignPoint

\* The message or payload returned for a result has the result's role and
\* content (and session key, for a payload).
Reconstructed(m, payload, name) ==
    IF name = "SearchSimilarMessages"
    THEN m.Role = Field(payload, "role") /\ m.Content = Field(payload, "content")
    ELSE /\ m.role = Field(payload, "role")
         /\ m.content = Field(payload, "content")
         /\ m.session_key = payload.session_key.val

\* C20: the request of a search has a filter on session_key, equal to the
\* key, exactly when the key is not empty.  The answer to a search with a
\* session key has only points whose payload has that session key, as many as there are up to the limit; the
\* answer to a search without one has points of any session, as many as the
\* collection has up to the limit.  The search returns, without an error, the
\* messages of the results whose payload can be converted, in the order of
\* the results; the other results are left out.
C20_SearchScopedAndOrdered ==
    [][\A t \in Threads :
        /\ (pc[t] = "searchQuery" /\ pc'[t] = "convert") =>
              LET hits == results'[t]
                  key == op[t].key
                  matching == {i \in 1..Len(points) :
                                 key # <<>> =>
                                    /\ "session_key" \in DOMAIN points[i].Map
                                    /\ points[i].Map.session_key.val = key}
                  request == SearchRequest(key, op[t].limit)
              IN  /\ ("filter" \in DOMAIN request) <=> (key # <<>>)
                  /\ key # <<>> =>
                        request.filter = [key |-> "session_key", match |-> Str(key)]
                  /\ Len(hits) <= op[t].limit
                  /\ Len(hits) <= Cardinality(matching)
                  /\ Len(hits) = op[t].limit \/ Len(hits) = Cardinality(matching)
                  /\ \A a \in 1..Len(hits) :
                        \E i \in matching :
                            hits[a].ID = points[i].ID /\ hits[a].Payload = points[i].Map
                  /\ \A a, b \in 1..Len(hits) : a # b => hits[a].ID # hits[b].ID
        /\ (pc[t] = "convert" /\ Stepped(t)) =>
              LET hits == results[t]
                  msgs == ret'[t].messages
              IN  /\ pc'[t] = "idle"
                  /\ ret'[t].err = "nil"
                  /\ Len(msgs) <= Len(hits)
                  /\ \E f \in [1..Len(msgs) -> 1..Len(hits)] :
                        /\ \A a, b \in 1..Len(msgs) : a < b => f[a] < f[b]
                        /\ \A a \in 1..Len(msgs) :
                              /\ Decodes(hits[f[a]].Payload)
                              /\ Reconstructed(msgs[a], hits[f[a]].Payload, op[t].name)
                        /\ \A j \in 1..Len(hits) :
                              (\A a \in 1..Len(msgs) : f[a] # j) =>
                                  ~Decodes(hits[j].Payload)]_vars

\* C20 witness: a search without a session key got two results, the first a
\* point whose payload cannot be converted, the second a point of a session.
C20_Witness ==
    \E t \in Threads :
        /\ pc[t] = "convert"
        /\ op[t].name = "SearchSimilarMessages"
        /\ op[t].key = <<>>
        /\ Len(results[t]) = 2
        /\ ~Decodes(results[t][1].Payload)
        /\ Decodes(results[t][2].Payload)
        /\ results[t][2].Payload.session_key = Str(KeyB)

\* C21: with the store enabled, a search whose embedding request or whose
\* search request fails returns an error: it returns without one only after
\* the search was answered.  After a failed embedding it returns without
\* having sent the search.  No step of a search changes the counter or the
\* collection.
C21_SearchFailureSurfaced ==
    [][\A t \in Threads :
        (StoreEnabled /\ op[t].name \in Searches /\ Stepped(t)) =>
            /\ (pc[t] \in {"searchEmbed", "searchQuery"} /\ pc'[t] = "idle") =>
                  /\ ret'[t].kind = "messages"
                  /\ ret'[t].err # "nil"
                  /\ ret'[t].messages = <<>>
            /\ (pc'[t] = "idle" /\ ret'[t].err = "nil") => pc[t] = "convert"
            /\ (pc[t] = "searchEmbed" /\ pc'[t] = "idle") => trace[t].net = 1
            /\ pc'[t] = "searchQuery" => pc[t] = "searchEmbed" /\ trace'[t].net = 2
            /\ pointCounter' = pointCounter
            /\ points' = points]_vars

\* C21 witness: with a point in the collection, one search has returned the
\* error of its embedding and another the error of its search request.
C21_Witness ==
    /\ StoreEnabled
    /\ ret["g1"] = Found(<<>>, "embedding")
    /\ ret["g2"] = Found(<<>>, "search")
    /\ pointCounter = 1
    /\ Len(points) >= 1

\* The goroutine is inside a method of the message store.
InStore(t) ==
    pc[t] \in {"enter", "store", "embed", "upsert", "search", "searchEmbed",
               "searchQuery", "convert"}

\* C22: the message store is enabled only when the configuration has the
\* vector store on and the collection exists, found or created by the
\* constructor; when the constructor's requests fail there is no message
\* store, and then AddFullMessage appends and returns without a step of the
\* message store and without a request.  An embedding, upsert or search
\* request is in flight only while the collection exists.
C22_EnabledOnlyAfterEnsure ==
    /\ [](StoreEnabled => storageCfg.Qdrant.Enabled /\ collection = "exists")
    /\ [](messageStore = "nil" =>
            /\ pointCounter = 0
            /\ points = <<>>
            /\ \A t \in Threads :
                ~InStore(t) /\ trace[t].net = 0 /\ ~trace[t].forwarded)
    /\ [](\A t \in Threads : InStore(t) => StoreEnabled /\ collection = "exists")
    /\ [][\A t \in Threads :
            /\ (pc[t] \in {"probe", "create"} /\ pc'[t] = "idle" /\ collection' = "absent")
                  => messageStore' = "nil"
            /\ (messageStore = "nil" /\ pc[t] = "locked" /\ Stepped(t)) =>
                  /\ pc'[t] = "idle"
                  /\ op[t].key \in DOMAIN sessions'
                  /\ Len(sessions'[op[t].key].Messages) =
                        1 + (IF op[t].key \in DOMAIN sessions
                             THEN Len(sessions[op[t].key].Messages) ELSE 0)]_vars

\* C22 witness: the vector store is on in the configuration, the constructor
\* could not create the collection, and a message that would be forwarded was
\* added to the session in memory.
C22_Witness ==
    /\ storageCfg.Qdrant.Enabled
    /\ collection = "absent"
    /\ messageStore = "nil"
    /\ pc["g1"] = "idle"
    /\ calls = 1
    /\ KeyA \in DOMAIN sessions
    /\ Plain(sessions[KeyA].Messages) = <<UserMsg>>

\* C27: with the message store enabled and no credential for the embeddings,
\* StoreMessage returns an error from GenerateEmbedding without a request
\* having been sent, the counter and the collection stay as they are, and
\* AddFullMessage, which has appended the message, returns nothing.
C27_NoCredentialFailsEveryStore ==
    /\ []((StoreEnabled /\ apiKey = "") =>
            /\ pointCounter = 0
            /\ points = <<>>
            /\ \A t \in Threads : trace[t].net = 0 /\ pc[t] # "upsert")
    /\ [][\A t \in Threads :
            (StoreEnabled /\ apiKey = "" /\ op[t].name = "AddFullMessage" /\ Stepped(t)) =>
                /\ pc[t] = "embed" =>
                      /\ pc'[t] = "relock"
                      /\ ret'[t].kind = "pending"
                      /\ ret'[t].storeErr # ""
                /\ pc[t] = "relocked" =>
                      /\ pc'[t] = "idle"
                      /\ ret'[t] = [kind |-> "void"]
                      /\ ret[t].storeErr # ""
                      /\ \E i \in 1..Len(sessions[op[t].key].Messages) :
                            sessions[op[t].key].Messages[i].id = trace[t].mid]_vars

\* C27 witness: the message store is enabled without a credential, a message
\* was appended and StoreMessage has returned the error to AddFullMessage.
C27_Witness ==
    /\ StoreEnabled
    /\ apiKey = ""
    /\ pc["g1"] = "relocked"
    /\ ret["g1"] = [kind |-> "pending", storeErr |-> "embedding"]
    /\ trace["g1"].forwarded
    /\ KeyA \in DOMAIN sessions
    /\ Plain(sessions[KeyA].Messages) = <<UserMsg>>

\* The number a requested limit stands for, where it has one: an int itself,
\* a float64 without its fraction, a string as Atoi reads it.
Requested(limitArg) ==
    IF limitArg.type = "int" THEN [given |-> TRUE, val |-> limitArg.val]
    ELSE IF limitArg.type = "float64"
    THEN [given |-> TRUE,
          val |-> IF limitArg.halves >= 0 THEN limitArg.halves \div 2
                  ELSE -((-limitArg.halves) \div 2)]
    ELSE IF limitArg.type = "string" /\ Atoi(limitArg.val).err = "nil"
    THEN [given |-> TRUE, val |-> Atoi(limitArg.val).val]
    ELSE [given |-> FALSE, val |-> 5]

\* C23: the limit Execute passes to the search lies in 1..20: for a
\* requested number above 20 it is 20, for one below 1 it is 1, for one in
\* 1..20 it is that number, and for a limit that is absent or cannot be read
\* as a number it is 5.
C23_LimitClamped ==
    [][\A t \in Threads :
        (pc[t] = "execute" /\ pc'[t] = "enter") =>
            LET args == op[t].args
                requested == Requested(IF "limit" \in DOMAIN args THEN args.limit ELSE Absent)
                limit == op'[t].limit
            IN  /\ limit \in 1..20
                /\ requested.val > 20 => limit = 20
                /\ requested.val < 1 => limit = 1
                /\ requested.val \in 1..20 => limit = requested.val]_vars

\* C23: whatever the requested limit, the limit passed to the search lies
\* in 1..20.
C23_LimitInRange ==
    [][\A t \in Threads :
        (pc[t] = "execute" /\ pc'[t] = "enter") => op'[t].limit \in 1..20]_vars

\* The instant a filter's bound stands for, where it is a text that can be
\* parsed.
Bound(filters, field) ==
    IF IsString(filters, field) /\ ParseTime(filters[field].val).err = "nil"
    THEN [given |-> TRUE, val |-> ParseTime(filters[field].val).val]
    ELSE [given |-> FALSE, val |-> 0]

\* A hit is kept: its role is the filter's role but for case, or no role is
\* given as a text; its instant is not before the lower bound and not after
\* the upper bound, where these are given.
Kept(hit, filters) ==
    /\ IsString(filters, "role") => ToLower(hit.role) = ToLower(filters.role.val)
    /\ Bound(filters, "timestamp_from").given =>
          hit.timestamp >= Bound(filters, "timestamp_from").val
    /\ Bound(filters, "timestamp_to").given =>
          hit.timestamp <= Bound(filters, "timestamp_to").val

\* C24: Execute formats exactly the hits that are kept, in the order the
\* search returned them, and all of them when there are no filters or the
\* filters are empty; a hit is kept iff its role and its instant agree with
\* the filters that are given.
C24_FiltersKeepExactly ==
    [][\A t \in Threads :
        (pc[t] = "searched" /\ ret[t].err = "nil" /\ Stepped(t)) =>
            LET hits == ret[t].messages
                filters == op[t].filters
                kept == SelectSeq(hits, LAMBDA hit : Kept(hit, filters))
            IN  /\ pc'[t] = "idle"
                /\ ~ret'[t].IsError
                /\ IF kept = <<>>
                   THEN ret'[t].ForLLM = Text("No relevant messages found in memory.")
                   ELSE ret'[t].ForLLM = formatResults(kept)
                /\ DOMAIN filters = {} => kept = hits
                /\ \A i \in 1..Len(hits) :
                      matchesFilters(hits[i], filters) <=> Kept(hits[i], filters)]_vars

\* C24 witness: a search over all sessions with a role filter has returned
\* the two messages of the role, of two sessions, in the order of the
\* search, and not the third hit.
C24_Witness ==
    /\ pc["g1"] = "idle"
    /\ ret["g1"] = ToolResult(
          formatResults(<<payloadToMessagePayload(OldPoints[3].Map),
                          payloadToMessagePayload(OldPoints[1].Map)>>), FALSE)

\* C25: the file name of a key has the key's length, "_" where the key has
\* ":" and the key's character everywhere else, so it has no ":" and is the
\* key when the key has none; the file name of a file name is the file name
\* itself; the file name of "a:b:c" is "a_b_c".
C25_SanitizeReplacesEverySeparator ==
    \A t \in Threads :
        ret[t].kind = "filename" =>
            LET key == ret[t].key
                filename == ret[t].filename
            IN  /\ Len(filename) = Len(key)
                /\ \A i \in 1..Len(key) :
                      /\ key[i] = ":" => filename[i] = "_"
                      /\ key[i] # ":" => filename[i] = key[i]
                /\ \A i \in 1..Len(filename) : filename[i] # ":"
                /\ (\A i \in 1..Len(key) : key[i] # ":") => filename = key
                /\ sanitizeFilename(filename) = filename
                /\ key = <<"a", ":", "b", ":", "c">> =>
                      filename = <<"a", "_", "b", "_", "c">>

\* C25 witness: the file name of "a:b:c" was computed.
C25_Witness ==
    /\ ret["g1"].kind = "filename"
    /\ ret["g1"].key = <<"a", ":", "b", ":", "c">>
    /\ ret["g1"].filename = <<"a", "_", "b", "_", "c">>

\* C26: session isolation.  A step of an operation on the key k (the
\* session tool's clear, TruncateHistory, AddFullMessage, SetHistory,
\* SetSummary) leaves every session of another key as it was: same
\* messages, summary and timestamps, and still there; a session that
\* appears is the one of the key of the operation.
C26_SessionIsolation ==
    [][\A k \in DOMAIN sessions \cup DOMAIN sessions' :
          (k \notin DOMAIN sessions \/ k \notin DOMAIN sessions' \/ sessions'[k] # sessions[k])
          => /\ k \in DOMAIN sessions'
             /\ \E t \in Threads : /\ Stepped(t)
                                   /\ pc[t] = "locked"
                                   /\ op[t].key = k]_vars

\* The session tool has cleared the session of KeyA, which the directory
\* held with messages, and the session of KeyB is as it was loaded.
C26_Witness ==
    /\ \E t \in Threads : ret[t].kind = "tool" /\ ~ret[t].IsError /\ ret[t].ForLLM.found = 0
                          /\ ret[t].ForLLM.text = "Session cleared"
    /\ KeyA \in DOMAIN sessions
    /\ sessions[KeyA].Messages = <<>>
    /\ sessions[KeyA].Created = SessA.Created
    /\ KeyB \in DOMAIN sessions
    /\ sessions[KeyB] = SessB
    /\ \E t \in Threads : pc[t] = "lock" /\ op[t].key = KeyB

\* Where Save is once it has its snapshot: the steps on the temporary file.
FileSteps == {"create", "write", "chmod", "sync", "close", "rename", "cleanup"}

\* C28: the snapshot that Save writes is the state of the session at one
\* instant, whatever mutators run on the same key meanwhile.  When Save
\* completes its snapshot, the snapshot is the session as it is at that
\* moment (messages, summary, created, updated), while Save holds the
\* shared lock; from then on the snapshot does not change, the file Save
\* writes and renames holds that snapshot, and Save holds no lock of the
\* session store while it works on files.
C28_SnapshotAtOneInstant ==
    /\ [][\A t \in Threads :
            /\ (pc[t] = "copy" /\ pc'[t] = "create")
               => /\ t \in mu.r
                  /\ snapshot'[t] = sessions[op[t].key]
                  /\ sessions' = sessions
            /\ (pc[t] \in FileSteps /\ pc'[t] \in FileSteps) => snapshot'[t] = snapshot[t]
            /\ (pc[t] = "rename" /\ pc'[t] = "idle")
               => /\ files'[SessionPath(op[t].key)].data = snapshot[t]
                  /\ files'[SessionPath(op[t].key)].json = MarshalIndent(snapshot[t])]_vars
    /\ [](\A t \in Threads :
            pc[t] \in FileSteps
            => /\ t \notin mu.r
               /\ mu.w # t
               /\ pc[t] # "create" /\ pc[t] # "cleanup" => tmp[t].data = snapshot[t])

\* Save has renamed a file that holds the session with the summary a
\* mutator gave it before the snapshot and with the messages it had before
\* another mutator replaced them.
C28_Witness ==
    /\ KeyA \in DOMAIN sessions
    /\ SessionPath(KeyA) \in DOMAIN files
    /\ files[SessionPath(KeyA)].data.Summary = "s1"
    /\ files[SessionPath(KeyA)].data.Messages = SessA.Messages
    /\ files[SessionPath(KeyA)].data.Updated < sessions[KeyA].Updated
    /\ sessions[KeyA].Messages = <<SystemMsg>>
    /\ \E t \in Threads : ret[t] = [kind |-> "error", err |-> "nil"]

\* C29: the sessions are never exposed for external mutation.  No caller
\* holds a slice that is a session's own message sequence, and a session's
\* messages, summary and timestamps change only in a step of an operation
\* of the store that holds sm.mu exclusively.
C29_NeverExposed ==
    /\ [](\A t \in Threads : held[t].shares \notin DOMAIN sessions)
    /\ [][sessions' # sessions
          => \E t \in Threads : Stepped(t) /\ pc[t] = "locked" /\ mu.w = t]_vars

\* C30: every point upserted through AddFullMessage carries in its payload
\* the key of a session that exists when the point is upserted, and that
\* exists ever after, because no session is ever removed.  The call to the
\* message store is made for the key of the operation, after the session
\* of that key was created or found; the point built for it has that key
\* in both forms of its payload; and every point of the collection has the
\* key of a session.
C30_PointsBelongToSessions ==
    /\ [][DOMAIN sessions \subseteq DOMAIN sessions']_vars
    /\ [][\A t \in Threads :
            (pc[t] = "upsert" /\ Len(points') = Len(points) + 1 /\ Stepped(t))
            => /\ points'[Len(points')].Payload.session_key = op[t].key
               /\ points'[Len(points')].Map.session_key = Str(op[t].key)
               /\ op[t].key \in DOMAIN sessions]_vars
    /\ [](/\ \A t \in Threads :
               pc[t] \in {"index", "store", "embed", "upsert"}
               => /\ op[t].name = "AddFullMessage"
                  /\ op[t].key \in DOMAIN sessions
          /\ \A i \in 1..Len(points) : points[i].Payload.session_key \in DOMAIN sessions)

\* Points of two sessions are in the collection, one of them of a session
\* whose history was emptied after the point was upserted.
C30_Witness ==
    /\ \E i, j \in 1..Len(points) :
        /\ points[i].Payload.session_key = KeyA
        /\ points[j].Payload.session_key = KeyB
    /\ KeyA \in DOMAIN sessions
    /\ KeyB \in DOMAIN sessions
    /\ sessions[KeyA].Messages = <<>>

\* C31: StoreMessage with the store enabled.  If the embedding fails it
\* returns an error, sends no upsert and leaves the counter as it was; if
\* the embedding succeeds the point it builds has the next identifier and
\* the given session key, role, content and index; if the upsert then fails
\* it returns an error and the collection is as before; if it succeeds the
\* collection has exactly that one point more.
C31_StoreMessageOutcomes ==
    [][\A t \in Threads :
         (op[t].name = "StoreMessage" /\ Stepped(t)) =>
            /\ (pc[t] = "embed" /\ pc'[t] = "idle")
               => /\ ret'[t] = Error("embedding")
                  /\ pointCounter' = pointCounter
                  /\ points' = points
            /\ (pc[t] = "embed" /\ pc'[t] # "idle")
               => /\ pc'[t] = "upsert"
                  /\ pointCounter' = pointCounter + 1
                  /\ point'[t].ID = pointCounter + 1
                  /\ point'[t].Map = [session_key |-> Str(op[t].key),
                                      role |-> Str(op[t].msg.Role),
                                      content |-> Str(op[t].msg.Content),
                                      timestamp |-> Str(clock),
                                      message_index |-> Num(op[t].index)]
                  /\ points' = points
            /\ pc[t] = "upsert"
               => /\ pc'[t] = "idle"
                  /\ pointCounter' = pointCounter
                  /\ \/ /\ ret'[t] = Error("upsert")
                        /\ points' = points
                     \/ /\ ret'[t] = Error("")
                        /\ points' = Append(points, point[t])]_vars

\* StoreMessage has returned nil with its point in the collection after an
\* earlier StoreMessage failed in its upsert, which left the counter advanced
\* and no point.
C31_Witness ==
    /\ \E t \in Threads : ret[t] = Error("upsert")
    /\ \E t \in Threads : ret[t] = Error("")
    /\ pointCounter = 2
    /\ Len(points) = 1
    /\ points[1].ID = 2
    /\ points[1].Map.session_key = Str(KeyA)

C38_BatchTotal ==
    /\ [][\A t \in Threads :
            (op[t].name = "StoreMessages" /\ Stepped(t)) =>
                /\ pc'[t] # "panicked"
                /\ pc'[t] = "batchUpsert"
                   => \A i \in 1..Len(batch'[t]) :
                        batch'[t][i].Vector = Embedding(op[t].messages[i].Message.Content)]_vars
    /\ [](\A i \in 1..Len(points) : points[i].Vector = Embedding(points[i].Payload.content))

\* The run before this one ended, and no upsert failed in it or, so far,
\* in this one: every identifier either run allocated was written.
NoUpsertFailed ==
    /\ previous # NoRun
    /\ previous.counter = Len(previous.ids)
    /\ pointCounter = Len(Written) + Cardinality({t \in Threads : pc[t] = "upsert"})

\* C33 as stated: the point-identifier counter is not persisted, so after a
\* restart the k-th point written by the new run has the identifier of the
\* k-th point written by the previous run.
C33_KthWrittenSameIdentifier ==
    previous # NoRun =>
        \A k \in 1..Len(Written) :
            k <= Len(previous.ids) => Written[k].ID = previous.ids[k]

\* C33, amended: the point-identifier counter is not persisted: every
\* construction of a store leaves it at zero, so the k-th identifier a run
\* allocates is k in every run; a point upserted under an identifier the
\* collection already holds replaces the point that had it and adds none;
\* and when no upsert failed in either run, the k-th point written by the
\* new run has the identifier of the k-th point written by the previous run.
C33_CounterNotPersisted ==
    /\ [][\A t \in Threads :
            (pc[t] \in {"probe", "create"} /\ pc'[t] = "idle") => pointCounter' = 0]_vars
    /\ [][\A t \in Threads :
            (pc[t] = "embed" /\ pc'[t] = "upsert") =>
                /\ pointCounter' = pointCounter + 1
                /\ point'[t].ID = pointCounter']_vars
    /\ [][\A t \in Threads :
            (pc[t] = "upsert" /\ points' # points) =>
                /\ \A i \in 1..Len(points') :
                       points'[i].ID = point[t].ID => points'[i] = point[t]
                /\ Len(points') = IF \E i \in 1..Len(points) : points[i].ID = point[t].ID
                                  THEN Len(points)
                                  ELSE Len(points) + 1]_vars
    /\ [](NoUpsertFailed =>
            \A k \in 1..Len(Written) :
                /\ Written[k].ID = k
                /\ k <= Len(previous.ids) => Written[k].ID = previous.ids[k])

\* The first point of the new run has replaced the first point of the run before.
C33_Witness ==
    /\ NoUpsertFailed
    /\ previous.ids = <<1>>
    /\ Len(Written) = 1
    /\ Written[1].ID = 1
    /\ Len(points) = 1

\* C39: point identifiers are unique within the collection for everything
\* written during one process run, also when several store instances write
\* to the same collection: no upsert is made under an identifier that
\* another message's point already has.
C39_UniqueIdentifiers ==
    [][\A t \in Threads :
        (pc[t] = "upsert" /\ points' # points) =>
            \A i \in 1..Len(points) : points[i].ID # point[t].ID]_vars

\* The positions <<key, index>> of the histories that hold the message
\* appended at time i.
PlacesOf(i) ==
    {p \in (DOMAIN sessions) \X (1..MaxAppendCalls + 1) :
        p[2] <= Len(sessions[p[1]].Messages) /\ sessions[p[1]].Messages[p[2]].id = i}

\* The sessions GetOrCreate created at time i (AddFullMessage creates a
\* session at the time of its first message).
CreatedEmptyAt(i) ==
    {k \in DOMAIN sessions :
        /\ sessions[k].Created = i
        /\ \A j \in 1..Len(sessions[k].Messages) : sessions[k].Messages[j].id # i}

\* C34: with concurrent GetOrCreate and AddFullMessage calls on the same
\* and on different keys and no truncate or set-history, no append is lost
\* or duplicated: every append put the caller's message at the end of the
\* history of its key and changed no other history, no other step changes
\* a history or replaces a session, every message ever appended is in
\* exactly one place of exactly one history, in the order of the appends,
\* and a message stays at the index it was appended at while its caller
\* waits for the store, whatever the store answers.
C34_NoLostOrDuplicatedAppends ==
    /\ [][\A t \in Threads :
            (pc[t] = "locked" /\ op[t].name = "AddFullMessage" /\ Stepped(t)) =>
                LET k == op[t].key
                    old == IF k \in DOMAIN sessions THEN sessions[k].Messages ELSE <<>>
                IN  /\ k \in DOMAIN sessions'
                    /\ sessions'[k].Messages = Append(old, [op[t].msg EXCEPT !.id = clock'])
                    /\ \A j \in DOMAIN sessions \ {k} :
                           j \in DOMAIN sessions' /\ sessions'[j] = sessions[j]]_vars
    /\ [][(\A t \in Threads :
             ~(pc[t] = "locked" /\ op[t].name = "AddFullMessage" /\ Stepped(t))) =>
                \A k \in DOMAIN sessions :
                    k \in DOMAIN sessions' /\ sessions'[k] = sessions[k]]_vars
    /\ [](\A i \in 1..clock : Cardinality(PlacesOf(i)) + Cardinality(CreatedEmptyAt(i)) = 1)
    /\ [](\A k \in DOMAIN sessions :
            \A a, b \in 1..Len(sessions[k].Messages) :
                a < b => sessions[k].Messages[a].id < sessions[k].Messages[b].id)
    /\ [](\A t \in Threads :
            trace[t].mid > 0 =>
                /\ op[t].key \in DOMAIN sessions
                /\ Len(sessions[op[t].key].Messages) > trace[t].aidx
                /\ sessions[op[t].key].Messages[trace[t].aidx + 1].id = trace[t].mid)

\* C34 witness: two user messages were appended to one key, GetOrCreate
\* created the session of the other key between the two appends, the store
\* took one of the messages and failed on the other, and all calls have
\* returned.
C34_Witness ==
    /\ DOMAIN sessions = {KeyA, KeyB}
    /\ Plain(sessions[KeyA].Messages) = <<UserMsg, UserMsg>>
    /\ sessions[KeyB].Messages = <<>>
    /\ sessions[KeyB].Created = 2
    /\ StoreEnabled
    /\ Len(points) = 1
    /\ \A t \in Threads : pc[t] = "idle"

\* The file holds a complete snapshot that loadSessions reads.
Loadable(name, file) ==
    Ext(name) = <<".", "j", "s", "o", "n">> /\ Readable(file) /\ Parses(file)

\* C35: distinct session keys are persisted to distinct files: a Save of
\* one key never replaces the file that holds the snapshot of another key,
\* and a fresh store constructed on the directory has, for every snapshot
\* in it, the session of that key with the history of the snapshot.
C35_DistinctKeysDistinctFiles ==
    /\ [][\A t \in Threads :
            (pc[t] = "rename" /\ Stepped(t)) =>
                \A n \in DOMAIN files :
                    (Loadable(n, files[n]) /\ files[n].data.Key # op[t].key) =>
                        n \in DOMAIN files' /\ files'[n] = files[n]]_vars
    /\ [][\A t \in Threads :
            (pc[t] = "new" /\ Stepped(t)) =>
                \A n \in DOMAIN files :
                    Loadable(n, files[n]) =>
                        /\ files[n].data.Key \in DOMAIN sessions'
                        /\ Plain(sessions'[files[n].data.Key].Messages)
                              = Plain(files[n].data.Messages)]_vars

\* C36: snapshots on disk never go backwards: when Save calls for one key
\* run concurrently with mutations, no Save puts its snapshot under the
\* final name in place of a snapshot of a more recent state of the session.
C36_SnapshotsNeverGoBackwards ==
    [][\A t \in Threads :
        (pc[t] = "rename" /\ files' # files) =>
            LET sessionPath == SessionPath(op[t].key) IN
                (sessionPath \in DOMAIN files /\ Loadable(sessionPath, files[sessionPath])) =>
                    files[sessionPath].data.Updated <= files'[sessionPath].data.Updated]_vars

\* The goroutine runs an operation that rewrites a session in memory:
\* SetSummary, TruncateHistory (also as the session tool's clear) or
\* SetHistory.
Rewriting(t) ==
    \/ op[t].name \in {"SetSummary", "TruncateHistory", "SetHistory", "SessionTool"}
    \/ pc[t] \in {"session", "tool"}

\* The points of the session in the index.
PointsOf(sessionKey) ==
    {i \in 1..Len(points) :
        "session_key" \in DOMAIN points[i].Map
            /\ points[i].Map.session_key = Str(sessionKey)}

\* No step of a rewriting operation issues a request or changes the index,
\* and a scoped search that succeeds with a limit no smaller than the
\* number of the session's points returns all of them.
RewritesLeaveIndex ==
    /\ [][\A t \in Threads :
            (Rewriting(t) /\ Stepped(t)) =>
                /\ points' = points
                /\ trace'[t].net = 0
                /\ ~InFlight(t) /\ pc'[t] \notin {"embed", "upsert", "deleting", "searchQuery"}]_vars
    /\ [][\A t \in Threads :
            (pc[t] = "searchQuery" /\ pc'[t] = "convert"
                /\ Cardinality(PointsOf(op[t].key)) <= op[t].limit) =>
                    \A i \in PointsOf(op[t].key) :
                        \E j \in 1..Len(results'[t]) : results'[t][j].ID = points[i].ID]_vars

\* The point is in the collection before the step and not after it.
Removed(i) == \A j \in 1..Len(points') : points'[j] # points[i]

\* C40 as stated: truncate (also the session tool's clear), set-history and
\* set-summary issue no vector-database request and leave the index as it
\* is, a scoped search still returns every point of the session after the
\* history was cleared, and only delete_session removes a session's points.
C40_OnlyDeleteRemovesPoints ==
    /\ RewritesLeaveIndex
    /\ [][\A i \in 1..Len(points) :
            Removed(i) =>
                \E t \in Threads :
                    /\ pc[t] = "deleting"
                    /\ points[i].Map.session_key = Str(op[t].key)]_vars

\* C40, amended: as stated, except that a session's point is also removed
\* by an upsert under its identifier, which replaces it.
C40_DeleteOrOverwriteRemovesPoints ==
    /\ RewritesLeaveIndex
    /\ [][\A i \in 1..Len(points) :
            Removed(i) =>
                \E t \in Threads :
                    \/ /\ pc[t] = "deleting"
                       /\ points[i].Map.session_key = Str(op[t].key)
                    \/ /\ pc[t] = "upsert"
                       /\ point[t].ID = points[i].ID]_vars

\* C40 witness: a message was stored for the session, the history was
\* cleared, and the scoped search after it has the point.
C40_Witness ==
    /\ KeyA \in DOMAIN sessions
    /\ sessions[KeyA].Messages = <<>>
    /\ pc["g1"] = "convert"
    /\ op["g1"].key = KeyA
    /\ Len(results["g1"]) = 1
    /\ results["g1"][1].ID = 1

\* The goroutine holds the lock, exclusively or shared.
Holds(m, t) == m.w = t \/ t \in m.r

====
